---- MODULE Spec2Model ----
(***************************************************************************)
(* Verification model of the SSH Telegram bot (ItsOrv/SSH-Telegram-Bot).   *)
(*                                                                         *)
(* The state is the module state of servers.py (_ssh_client,               *)
(* _connection_lock, _is_connected, _connected_server_info), the three     *)
(* files of config.py (admins.txt, servers.txt, commands.txt) and, for     *)
(* every requester, the position of the handler of bot.py that is serving  *)
(* it.  Spec is the bot with the handlers main.py registers; SpecSession,  *)
(* SpecStore, SpecCommands, SpecList, SpecAdmins and SpecFilter are the    *)
(* session commands, the inventory functions, the command handlers, the    *)
(* listing, the functions of authentication.py and the functions of        *)
(* utils.py by themselves.  Requests are served concurrently: the          *)
(* boundary operations of servers.py are written for concurrent callers    *)
(* (threading.Lock in connect_to_server / disconnect_from_server), so one  *)
(* step of the model is one access to shared state, one transport          *)
(* operation or the code between two awaits of a handler, and steps of     *)
(* different requesters interleave freely.                                 *)
(*                                                                         *)
(* A file is the sequence of its characters (all of them ASCII, so that    *)
(* characters are bytes).  open(..., 'a') creates the file, and what was   *)
(* written is appended when the file closes; open(..., 'w') empties the    *)
(* file, and what was written goes to the start of the file when it        *)
(* closes, over what is there by then and leaving what lies beyond it.     *)
(* servers.txt is written by csv.writer and read by csv.reader through the *)
(* text layer's newline translation.                                       *)
(*                                                                         *)
(* A login that the server refuses leaves the client's connection open     *)
(* until close(), in connect_to_server and in is_valid_login alike; any    *)
(* other failed connect leaves none.  A close() that raises leaves the     *)
(* connection open or closed.  Every step that returns to a requester      *)
(* records in out what was returned and which transport operations the     *)
(* request performed; every other step resets out.                         *)
(*                                                                         *)
(* Text is a sequence of code points (0..255), so that str.strip,          *)
(* str.lower, the substring test and re.search are computed, not assumed.  *)
(***************************************************************************)
EXTENDS Integers, Sequences, FiniteSets, TLC

(***************************************************************************)
(* Bounds of the model.                                                    *)
(***************************************************************************)
\* successful connects in one behaviour (the values time.time() can take)
MaxClock == 2
\* updates the bot takes from Telegram in one behaviour of Spec
MaxUpdates == 3

(***************************************************************************)
(* Text helpers (Python str semantics on code points 0..255).              *)
(***************************************************************************)
\* str.isspace / regex \s for a str pattern, restricted to 0..255
IsSpace(c) == (c >= 9 /\ c <= 13) \/ (c >= 28 /\ c <= 32) \/ c = 133 \/ c = 160

\* str.lower on one code point (ASCII and Latin-1 capitals)
LowerChar(c) ==
  IF c \in (65..90) \/ (c \in (192..222) /\ c # 215) THEN c + 32 ELSE c

Lower(s) == [i \in 1..Len(s) |-> LowerChar(s[i])]

\* str.strip(): drop leading and trailing whitespace
Strip(s) ==
  LET n == Len(s)
      \* the whitespace at the start, and at the end, of s
      lead == CHOOSE k \in 0..n : (k = n \/ ~IsSpace(s[k + 1])) /\ \A j \in 1..k : IsSpace(s[j])
      trail == CHOOSE k \in 0..n : (k = n \/ ~IsSpace(s[n - k])) /\ \A j \in (n - k + 1)..n : IsSpace(s[j])
  IN  IF lead = n THEN <<>> ELSE SubSeq(s, lead + 1, n - trail)

\* Python's  sub in s
Contains(s, sub) ==
  \E i \in 1..(Len(s) - Len(sub) + 1) : SubSeq(s, i, i + Len(sub) - 1) = sub

\* str.split()[0]: the first whitespace-delimited token, <<>> when split()
\* returns the empty list
FirstToken(s) ==
  LET t == Strip(s)
      ws == {i \in 1..Len(t) : IsSpace(t[i])}
  IN  IF ws = {} THEN t
      ELSE SubSeq(t, 1, (CHOOSE i \in ws : \A j \in ws : i <= j) - 1)

StartsWith(s, prefix) ==
  Len(prefix) <= Len(s) /\ SubSeq(s, 1, Len(prefix)) = prefix

(***************************************************************************)
(* Command Filter (utils.py).                                              *)
(***************************************************************************)
\* regex atoms of the dangerous patterns: a code point is a literal
WsStar == -1
WsPlus == -2

\* re.match of the pattern pat at position i of s, with re.IGNORECASE
RECURSIVE MatchFrom(_, _, _)
MatchFrom(s, i, pat) ==
  IF pat = <<>> THEN TRUE
  ELSE IF Head(pat) = WsStar \/ Head(pat) = WsPlus
  THEN \E j \in (IF Head(pat) = WsPlus THEN i + 1 ELSE i)..(Len(s) + 1) :
          /\ \A k \in i..(j - 1) : IsSpace(s[k])
          /\ MatchFrom(s, j, Tail(pat))
  ELSE /\ i <= Len(s)
       /\ LowerChar(s[i]) = LowerChar(Head(pat))
       /\ MatchFrom(s, i + 1, Tail(pat))

\* re.search(pattern, command, re.IGNORECASE)
ReSearch(pat, s) == \E i \in 1..(Len(s) + 1) : MatchFrom(s, i, pat)

\* the dangerous patterns without the rule for ';'
dangerous_patterns_without_semicolon ==
  << <<38, 38, WsStar, 114, 109, WsPlus, 45, 114, 102>>,
     <<124, WsStar, 114, 109, WsPlus, 45, 114, 102>>,
     <<62, WsStar, 47, 100, 101, 118, 47>>,
     <<60, WsStar, 47, 100, 101, 118, 47>> >>

\* utils.py: dangerous_patterns
dangerous_patterns ==
  << <<59, WsStar, 114, 109, WsPlus, 45, 114, 102>>,       \* ;\s*rm\s+-rf
     <<38, 38, WsStar, 114, 109, WsPlus, 45, 114, 102>>,   \* &&\s*rm\s+-rf
     <<124, WsStar, 114, 109, WsPlus, 45, 114, 102>>,      \* \|\s*rm\s+-rf
     <<62, WsStar, 47, 100, 101, 118, 47>>,                \* >\s*/dev/
     <<60, WsStar, 47, 100, 101, 118, 47>> >>              \* <\s*/dev/

\* config.py: Config.BLOCKED_COMMANDS
BLOCKED_COMMANDS ==
  << <<114, 109, 32, 45, 114, 102, 32, 47>>,   \* 'rm -rf /'
     <<109, 107, 102, 115>>,                   \* 'mkfs'
     <<100, 100, 32, 105, 102, 61>>,           \* 'dd if='
     <<102, 111, 114, 109, 97, 116>>,          \* 'format'
     <<102, 100, 105, 115, 107>> >>            \* 'fdisk'

\* config.py: Config.ALLOWED_COMMAND_PREFIXES
ALLOWED_COMMAND_PREFIXES ==
  << <<108, 115>> (* 'ls' *), <<99, 100>> (* 'cd' *), <<112, 119, 100>> (* 'pwd' *), <<99, 97, 116>> (* 'cat' *), <<103, 114, 101, 112>> (* 'grep' *), <<102, 105, 110, 100>> (* 'find' *), <<112, 115>> (* 'ps' *), <<116, 111, 112>> (* 'top' *),
     <<100, 102>> (* 'df' *), <<100, 117>> (* 'du' *), <<102, 114, 101, 101>> (* 'free' *), <<117, 112, 116, 105, 109, 101>> (* 'uptime' *) >>

\* the first blocked entry, in list order, that the command contains
FirstBlocked(cmd, blocked) ==
  LET hits == {i \in 1..Len(blocked) : Contains(Lower(cmd), Lower(blocked[i]))}
  IN  IF hits = {} THEN 0 ELSE CHOOSE i \in hits : \A j \in hits : i <= j

\* validate_command with the dangerous patterns looked at before the blocklist
validate_command_dangerous_first(command0, blocked, allowed) ==
  LET command == Strip(command0)
      b == FirstBlocked(command, blocked)
  IN  IF \E k \in 1..Len(dangerous_patterns) :
            ReSearch(dangerous_patterns[k], command)
      THEN [ok |-> FALSE, reason |-> "dangerous", pattern |-> <<>>]
      ELSE IF b # 0
      THEN [ok |-> FALSE, reason |-> "blocked", pattern |-> blocked[b]]
      ELSE IF /\ allowed # <<>>
              /\ FirstToken(command) # <<>>
              /\ ~ \E k \in 1..Len(allowed) :
                     StartsWith(Lower(FirstToken(command)), allowed[k])
      THEN [ok |-> FALSE, reason |-> "prefix", pattern |-> <<>>]
      ELSE [ok |-> TRUE, reason |-> "", pattern |-> <<>>]

\* utils.py: validate_command; allowed = <<>> stands for both None and []
\* (the code tests  if allowed_prefixes:)
validate_command(command0, blocked, allowed) ==
  LET command == Strip(command0)
      b == FirstBlocked(command, blocked)
  IN  IF b # 0
      THEN [ok |-> FALSE, reason |-> "blocked", pattern |-> blocked[b]]
      ELSE IF \E k \in 1..Len(dangerous_patterns) :
                 ReSearch(dangerous_patterns[k], command)
      THEN [ok |-> FALSE, reason |-> "dangerous", pattern |-> <<>>]
      ELSE IF /\ allowed # <<>>
              /\ FirstToken(command) # <<>>
              /\ ~ \E k \in 1..Len(allowed) :
                     StartsWith(Lower(FirstToken(command)), allowed[k])
      THEN [ok |-> FALSE, reason |-> "prefix", pattern |-> <<>>]
      ELSE [ok |-> TRUE, reason |-> "", pattern |-> <<>>]

\* utils.py: the length sanitize_input truncates to
MaxInputLen == 1000

\* re.sub(r'[\x00-\x1f\x7f-\x9f]', '', text)
RemoveControl(s) ==
  LET NotControl(c) == c \notin ((0..31) \cup (127..159))
  IN  SelectSeq(s, NotControl)

\* sanitize_input with the strip before the removal of control characters
sanitize_strip_first(text) ==
  LET t == RemoveControl(Strip(text))
  IN  IF Len(t) > MaxInputLen THEN SubSeq(t, 1, MaxInputLen) ELSE t

\* utils.py: sanitize_input
sanitize_input(text) ==
  LET t == RemoveControl(text)
      u == IF Len(t) > MaxInputLen THEN SubSeq(t, 1, MaxInputLen) ELSE t
  IN  Strip(u)

(***************************************************************************)
(* Message parsing used by the handlers of bot.py.                         *)
(***************************************************************************)
\* str.replace(old, ''): leftmost non-overlapping occurrences removed
RECURSIVE RemoveAll(_, _)
RemoveAll(s, old) ==
  IF s = <<>> THEN <<>>
  ELSE IF StartsWith(s, old) THEN RemoveAll(SubSeq(s, Len(old) + 1, Len(s)), old)
  ELSE <<Head(s)>> \o RemoveAll(Tail(s), old)

\* str.split(): the whitespace-delimited tokens
RECURSIVE SplitWs(_)
SplitWs(s) ==
  LET t == FirstToken(s)
      u == Strip(s)
  IN  IF t = <<>> THEN <<>>
      ELSE <<t>> \o SplitWs(SubSeq(u, Len(t) + 1, Len(u)))

\* str.split(sep) for a one-character separator
RECURSIVE SplitOn(_, _)
SplitOn(s, sep) ==
  LET at == {i \in 1..Len(s) : s[i] = sep}
  IN  IF at = {} THEN <<s>>
      ELSE LET i == CHOOSE k \in at : \A j \in at : k <= j
           IN  <<SubSeq(s, 1, i - 1)>> \o SplitOn(SubSeq(s, i + 1, Len(s)), sep)

\* str.isdigit() on 0..255: ASCII digits and the superscripts 2, 3, 1
IsDigit(s) == s # <<>> /\ \A i \in 1..Len(s) : s[i] \in ((48..57) \cup {178, 179, 185})

\* int(s) succeeds on a digit string only when every digit is a decimal one
IntParses(s) == s # <<>> /\ \A i \in 1..Len(s) : s[i] \in (48..57)

RECURSIVE IntOf(_)
IntOf(s) ==
  IF s = <<>> THEN 0 ELSE 10 * IntOf(SubSeq(s, 1, Len(s) - 1)) + (s[Len(s)] - 48)

\* str(n) for an integer n >= 0
RECURSIVE PyStrInt(_)
PyStrInt(n) ==
  IF n < 10 THEN <<48 + n>> ELSE PyStrInt(n \div 10) \o <<48 + (n % 10)>>

(***************************************************************************)
(* The text layer of open().                                               *)
(***************************************************************************)
\* servers.py 125, authentication.py 28 and 92: open(..., 'r') without
\* newline='': the text layer turns '\r\n' and '\r' into '\n', also inside
\* the quoted fields that csv.writer wrote
UniversalNewlines(s) ==
  LET Kept(at) == ~(at[2] = 10 /\ at[1] > 1 /\ s[at[1] - 1] = 13)
      kept == SelectSeq([i \in 1..Len(s) |-> <<i, s[i]>>], Kept)
  IN  [k \in 1..Len(kept) |-> IF kept[k][2] = 13 THEN 10 ELSE kept[k][2]]

(***************************************************************************)
(* Access Policy (authentication.py).                                      *)
(***************************************************************************)
\* authentication.py 13-38: is_admin_user: the results a call can have;
\* file = [exists, content]; the file is read in text mode (28-29); an open
\* or a read that fails is answered by the except clause (36-38): False
is_admin_user(user_str, file) ==
  IF ~file.exists THEN {FALSE}
  ELSE LET content == Strip(UniversalNewlines(file.content))
           parts == SplitOn(content, 44)
           admins == {Strip(parts[i]) : i \in 1..Len(parts)} \ {<<>>}
       IN  {content # <<>> /\ user_str \in admins, FALSE}

(***************************************************************************)
(* servers.py: address check.                                              *)
(***************************************************************************)
\* ipaddress.IPv4Address: four octets, each 1..3 ASCII digits, no leading
\* zero, value at most 255
IsIPv4(s) ==
  LET parts == SplitOn(s, 46)
      IsOctet(o) ==
        /\ Len(o) \in 1..3
        /\ \A i \in 1..Len(o) : o[i] \in (48..57)
        /\ (Len(o) > 1 => o[1] # 48)
        /\ IntOf(o) <= 255
  IN  Len(parts) = 4 /\ \A i \in 1..4 : IsOctet(parts[i])

\* ipaddress._BaseV6._parse_hextet: 1..4 hexadecimal digits
IsHextet(s) ==
  /\ Len(s) \in 1..4
  /\ \A i \in 1..Len(s) : s[i] \in ((48..57) \cup (65..70) \cup (97..102))

\* ipaddress.IPv6Address(str): scope id, IPv4 suffix, one '::'
IsIPv6(s0) ==
  LET pct == {i \in 1..Len(s0) : s0[i] = 37}
      cut == IF pct = {} THEN Len(s0) + 1 ELSE CHOOSE i \in pct : \A j \in pct : i <= j
      s == SubSeq(s0, 1, cut - 1)
      scopeOk == pct = {} \/ (cut < Len(s0) /\ Cardinality(pct) = 1)
      raw == SplitOn(s, 58)
      v4tail == Len(raw) >= 3 /\ 46 \in {raw[Len(raw)][i] : i \in 1..Len(raw[Len(raw)])}
      P == IF v4tail THEN SubSeq(raw, 1, Len(raw) - 1) \o << <<48>>, <<48>> >> ELSE raw
      n == Len(P)
      E == {i \in 2..(n - 1) : P[i] = <<>>}
      k == CHOOSE i \in E : TRUE
      hi == IF P[1] = <<>> THEN k - 2 ELSE k - 1
      lo == IF P[n] = <<>> THEN n - k - 1 ELSE n - k
  IN  /\ 47 \notin {s0[i] : i \in 1..Len(s0)}
      /\ scopeOk
      /\ s # <<>>
      /\ Len(raw) >= 3
      /\ (v4tail => IsIPv4(raw[Len(raw)]))
      /\ n <= 9
      /\ Cardinality(E) <= 1
      /\ IF E # {}
         THEN /\ (P[1] = <<>> => hi = 0)
              /\ (P[n] = <<>> => lo = 0)
              /\ 8 - (hi + lo) >= 1
              /\ \A i \in 1..hi : IsHextet(P[i])
              /\ \A i \in (n - lo + 1)..n : IsHextet(P[i])
         ELSE /\ n = 8
              /\ \A i \in 1..n : IsHextet(P[i])

\* servers.py: is_valid_ip
is_valid_ip(ip) == IsIPv4(ip) \/ IsIPv6(ip)

(***************************************************************************)
(* The csv module as servers.py uses it (excel dialect).                   *)
(***************************************************************************)
\* csv.reader over the text t, from its m-th special character on (sp holds
\* the positions where a ',', a '"' or a '\n' stands); st is the parser's
\* state, named as in csv.reader; the
\* characters before it go to the field; ',' ends a field, '\n' ends a
\* record outside quotes, '"' opens a quoted field at the start of a field,
\* '""' inside one is a quote; at the end of the text a record that has
\* started is returned, also inside an open quote
RECURSIVE csv_parse(_, _, _, _, _, _, _)
csv_parse(t, sp, m, st, rows, row, field) ==
  LET from == IF m = 1 THEN 1 ELSE sp[m - 1] + 1
      to == IF m > Len(sp) THEN Len(t) ELSE sp[m] - 1
      f == field \o SubSeq(t, from, to)
      s == IF to < from THEN st
           ELSE IF st = "IN_QUOTED_FIELD" THEN "IN_QUOTED_FIELD" ELSE "IN_FIELD"
  IN  IF m > Len(sp)
      THEN IF s = "START_RECORD" THEN rows ELSE Append(rows, Append(row, f))
      ELSE LET c == t[sp[m]]
           IN  IF s = "IN_QUOTED_FIELD"
               THEN IF c = 34
                    THEN csv_parse(t, sp, m + 1, "QUOTE_IN_QUOTED_FIELD", rows, row, f)
                    ELSE csv_parse(t, sp, m + 1, "IN_QUOTED_FIELD", rows, row, Append(f, c))
               ELSE IF c = 10
               THEN csv_parse(t, sp, m + 1, "START_RECORD",
                              Append(rows, IF s = "START_RECORD" THEN <<>>
                                           ELSE Append(row, f)),
                              <<>>, <<>>)
               ELSE IF c = 44
               THEN csv_parse(t, sp, m + 1, "START_FIELD", rows, Append(row, f), <<>>)
               ELSE IF s \in {"START_RECORD", "START_FIELD"}
               THEN csv_parse(t, sp, m + 1, "IN_QUOTED_FIELD", rows, row, f)
               ELSE IF s = "QUOTE_IN_QUOTED_FIELD"
               THEN csv_parse(t, sp, m + 1, "IN_QUOTED_FIELD", rows, row, Append(f, 34))
               ELSE csv_parse(t, sp, m + 1, "IN_FIELD", rows, row, Append(f, 34))

\* servers.py 125-127: the rows csv.reader yields from the file's characters
csv_reader(content) ==
  LET t == UniversalNewlines(content)
      Special(at) == at[2] = 44 \/ at[2] = 34 \/ at[2] = 10
      special == SelectSeq([i \in 1..Len(t) |-> <<i, t[i]>>], Special)
      sp == [k \in 1..Len(special) |-> special[k][1]]
  IN  csv_parse(t, sp, 1, "START_RECORD", <<>>, <<>>, <<>>)

\* csv.writer, QUOTE_MINIMAL: a field with a delimiter, a quote or a line end
\* is quoted, and its quotes are doubled
RECURSIVE DoubleQuotes(_)
DoubleQuotes(s) ==
  IF s = <<>> THEN <<>>
  ELSE (IF Head(s) = 34 THEN <<34, 34>> ELSE <<Head(s)>>) \o DoubleQuotes(Tail(s))

csv_field(field) ==
  IF \E i \in 1..Len(field) : field[i] \in {44, 34, 13, 10}
  THEN <<34>> \o DoubleQuotes(field) \o <<34>>
  ELSE field

RECURSIVE JoinFields(_)
JoinFields(row) ==
  IF row = <<>> THEN <<>>
  ELSE IF Len(row) = 1 THEN csv_field(row[1])
  ELSE csv_field(row[1]) \o <<44>> \o JoinFields(Tail(row))

\* csv_writer.writerow(row): the line written, ended by '\r\n'; a row of one
\* empty field is written as '""'
csv_writerow(row) ==
  (IF row = << <<>> >> THEN <<34, 34>> ELSE JoinFields(row)) \o <<13, 10>>

\* for server in servers: csv_writer.writerow(server)
RECURSIVE csv_writerows(_)
csv_writerows(rows) ==
  IF rows = <<>> THEN <<>>
  ELSE csv_writerow(Head(rows)) \o csv_writerows(Tail(rows))

(***************************************************************************)
(* Requesters, files and inputs.                                           *)
(***************************************************************************)
\* two requesters served concurrently; the second has no username
Procs == {1, 2}

\* the chat of requester p: its id and its username, <<>> for None
User(p) ==
  IF p = 1 THEN [id |-> 100, username |-> << <<97, 108, 105, 99, 101>> (* 'alice' *) >>]
  ELSE [id |-> 200, username |-> <<>>]

\* the updates the handlers are called with: a message with its text, an
\* edited message (update.message and update.callback_query are None; the
\* handlers of main.py 38-53 take edited messages too) and the press of a
\* button of the menu (bot.py 44-76)
Message(text) == [message |-> <<text>>, callback_query |-> FALSE]
EditedMessage == [message |-> <<>>, callback_query |-> FALSE]
CallbackQuery == [message |-> <<>>, callback_query |-> TRUE]

\* utils.py 18-32: get_user_info: (chat id, username) of the message or of
\* the callback query, (None, None) for any other update
get_user_info(p, update) ==
  IF update.message # <<>> \/ update.callback_query
  THEN [id |-> <<User(p).id>>, username |-> User(p).username]
  ELSE [id |-> <<>>, username |-> <<>>]

\* contents of admins.txt the model starts from (ids and handles; the
\* last one can be written by /add_admin None)
AdminFiles ==
  { <<32, 97, 108, 105, 99, 101, 32, 44>> (* ' alice ,' *),
    <<49, 48, 48, 44, 50, 48, 48>> (* '100,200' *),
    <<51, 48, 48, 44, 32, 78, 111, 110, 101>> (* '300, None' *) }

\* init_files.py / servers.py: the header row of servers.txt
Header ==
  << <<83, 69, 82, 86, 69, 82, 95, 73, 80>> (* 'SERVER_IP' *),
     <<76, 79, 71, 73, 78, 95, 85, 83, 69, 82, 78, 65, 77, 69>> (* 'LOGIN_USERNAME' *),
     <<76, 79, 71, 73, 78, 95, 80, 65, 83, 83, 87, 79, 82, 68>> (* 'LOGIN_PASSWORD' *),
     <<65, 68, 68, 69, 68, 95, 66, 89>> (* 'ADDED_BY' *),
     <<68, 65, 84, 69, 95, 65, 68, 68, 69, 68>> (* 'DATE_ADDED' *) >>

\* servers.py 157 and 191, init_files.py: the header row as csv.writer writes it
HeaderLine == csv_writerow(Header)

\* bot.py: strftime("%Y-%m-%d %H:%M:%S", gmtime()), one instant
Timestamp == <<50, 48, 50, 52, 45, 48, 49, 45, 48, 49, 32, 48, 48, 58, 48, 48, 58, 48, 48>> (* '2024-01-01 00:00:00' *)

\* messages the requesters send
AddTexts ==
  { <<47, 97, 100, 100, 95, 115, 101, 114, 118, 101, 114, 32, 49, 48, 46, 48, 46, 48, 46, 57, 32, 97, 108, 32, 112, 119>> (* '/add_server 10.0.0.9 al pw' *),
    <<47, 97, 100, 100, 95, 115, 101, 114, 118, 101, 114, 32, 49, 48, 46, 48, 46, 48, 32, 97, 108, 32, 112, 119>> (* '/add_server 10.0.0 al pw' *),
    <<47, 97, 100, 100, 95, 115, 101, 114, 118, 101, 114, 32, 49, 48, 46, 48, 46, 48, 46, 57, 32, 97, 108>> (* '/add_server 10.0.0.9 al' *) }

DelTexts ==
  { <<47, 100, 101, 108, 95, 115, 101, 114, 118, 101, 114, 32, 49>> (* '/del_server 1' *),
    <<47, 100, 101, 108, 95, 115, 101, 114, 118, 101, 114, 32, 57>> (* '/del_server 9' *),
    <<47, 100, 101, 108, 95, 115, 101, 114, 118, 101, 114, 32, 120>> (* '/del_server x' *) }

ConnTexts ==
  { <<47, 99, 111, 110, 110, 101, 99, 116, 32, 49>> (* '/connect 1' *),
    <<47, 99, 111, 110, 110, 101, 99, 116, 32, 57>> (* '/connect 9' *),
    <<47, 99, 111, 110, 110, 101, 99, 116>> (* '/connect' *) }

CmdTexts ==
  { <<108, 115>> (* 'ls' *),
    <<114, 109, 32, 45, 114, 102, 32, 47>> (* 'rm -rf /' *),
    <<97, 59, 114, 109, 32, 45, 114, 102, 32, 120>> (* 'a;rm -rf x' *),
    <<108, 7, 115>> (* 'l\x07s' *) }

ChatTypes == {"private", "group"}

\* a plain text message that no allowed prefix starts
MoreCmdTexts == { <<105, 100>> (* 'id' *) }

\* /add_command messages
AddCmdTexts ==
  { <<47, 97, 100, 100, 95, 99, 111, 109, 109, 97, 110, 100, 32, 108, 115, 32, 45, 108, 97>> (* '/add_command ls -la' *),
    <<47, 97, 100, 100, 95, 99, 111, 109, 109, 97, 110, 100>> (* '/add_command' *) }

\* /add_command messages that the filter rejects, or that hold a control
\* character
MoreAddCmdTexts ==
  { <<47, 97, 100, 100, 95, 99, 111, 109, 109, 97, 110, 100, 32, 109, 107, 102, 115>> (* '/add_command mkfs' *),
    <<47, 97, 100, 100, 95, 99, 111, 109, 109, 97, 110, 100, 32, 114, 109, 7, 32, 45, 114, 102, 32, 47>> (* '/add_command rm\x07 -rf /' *) }

\* /remove_command messages
RemoveCmdTexts ==
  { <<47, 114, 101, 109, 111, 118, 101, 95, 99, 111, 109, 109, 97, 110, 100, 32, 49>> (* '/remove_command 1' *),
    <<47, 114, 101, 109, 111, 118, 101, 95, 99, 111, 109, 109, 97, 110, 100, 32, 50>> (* '/remove_command 2' *),
    <<47, 114, 101, 109, 111, 118, 101, 95, 99, 111, 109, 109, 97, 110, 100>> (* '/remove_command' *),
    <<47, 114, 101, 109, 111, 118, 101, 95, 99, 111, 109, 109, 97, 110, 100, 32, 178>> (* '/remove_command ²' *) }

\* /add_admin messages
AddAdminTexts ==
  { <<47, 97, 100, 100, 95, 97, 100, 109, 105, 110, 32, 78, 111, 110, 101>> (* '/add_admin None' *),
    <<47, 97, 100, 100, 95, 97, 100, 109, 105, 110>> (* '/add_admin' *) }

\* texts given to sanitize_input and to validate_command; the last is
\* longer than sanitize_input's limit: 999 letters, a space, 'bc'
FilterTexts ==
  { <<108, 115, 32, 45, 108, 97>> (* 'ls -la' *),
    <<102, 111, 111, 59, 32, 114, 109, 32, 45, 114, 102, 32, 47, 116, 109, 112>> (* 'foo; rm -rf /tmp' *),
    <<97, 59, 114, 109, 32, 45, 114, 102, 32, 120>> (* 'a;rm -rf x' *),
    <<102, 111, 114, 109, 97, 116, 32, 109, 107, 102, 115>> (* 'format mkfs' *),
    <<77, 75, 70, 83, 32, 38, 38, 32, 114, 109, 32, 45, 114, 102, 32, 120>> (* 'MKFS && rm -rf x' *),
    <<>>,
    <<32, 32, 32>> (* '   ' *),
    <<76, 83>> (* 'LS' *),
    <<32, 7, 32, 108, 115, 0, 32>> (* ' \x07 ls\x00 ' *),
    <<99, 97, 116, 32, 120, 32, 62, 32, 47, 100, 101, 118, 47, 110, 117, 108, 108>> (* 'cat x > /dev/null' *),
    <<105, 100, 32, 62, 32, 47, 100, 101, 118, 47, 115, 100, 97>> (* 'id > /dev/sda' *),
    <<105, 100>> (* 'id' *),
    <<114, 109, 7, 32, 45, 114, 102, 32, 47>> (* 'rm\x07 -rf /' *),
    <<97, 160>> (* 'a\xa0' *),
    [i \in 1..1002 |-> IF i <= 999 THEN 97 ELSE IF i = 1000 THEN 32 ELSE 98 + (i - 1001)] }

\* blocked_commands arguments: none, the configured list, another order
Blocklists ==
  { <<>>, BLOCKED_COMMANDS, << <<102, 111, 114, 109, 97, 116>> (* 'format' *), <<77, 75, 70, 83>> (* 'MKFS' *) >> }

\* allowed_prefixes arguments: None, the configured list, a capital prefix,
\* a short list
AllowLists ==
  { <<>>, ALLOWED_COMMAND_PREFIXES, << <<76, 83>> (* 'LS' *) >>, << <<105, 100>> (* 'id' *), <<99, 97, 116>> (* 'cat' *) >> }

(***************************************************************************)
(* The handlers' parsing of these messages, computed once per message.     *)
(***************************************************************************)
\* bot.py 214-216: data.replace("/add_server", '').strip().split()
AddArgs == [t \in AddTexts |-> SplitWs(Strip(RemoveAll(t, <<47, 97, 100, 100, 95, 115, 101, 114, 118, 101, 114>> (* '/add_server' *))))]

\* an address check that accepts every address
AddIpAlwaysValid(server_ip) == TRUE

\* bot.py 234: is_valid_ip(server_ip)
AddIpValid(server_ip) == is_valid_ip(server_ip)

\* bot.py 151-152: data.replace("/del_server", '').strip()
DelData == [t \in DelTexts |-> Strip(RemoveAll(t, <<47, 100, 101, 108, 95, 115, 101, 114, 118, 101, 114>> (* '/del_server' *)))]

\* bot.py 324-325: data.replace("/connect", '').strip()
ConnData == [t \in ConnTexts |-> Strip(RemoveAll(t, <<47, 99, 111, 110, 110, 101, 99, 116>> (* '/connect' *)))]

\* bot.py 552: sanitize_input(text)
Sanitized == [t \in CmdTexts \cup MoreCmdTexts |-> sanitize_input(t)]

\* bot.py 449: update.message.text.replace("/add_command", "").strip()
AddCmdData == [t \in AddCmdTexts \cup MoreAddCmdTexts |-> Strip(RemoveAll(t, <<47, 97, 100, 100, 95, 99, 111, 109, 109, 97, 110, 100>> (* '/add_command' *)))]

\* bot.py 494: update.message.text.replace("/remove_command", "").strip()
RemoveCmdData == [t \in RemoveCmdTexts |-> Strip(RemoveAll(t, <<47, 114, 101, 109, 111, 118, 101, 95, 99, 111, 109, 109, 97, 110, 100>> (* '/remove_command' *)))]

\* bot.py 113-114: data.replace("/add_admin", '').strip()
AddAdminData == [t \in AddAdminTexts |-> Strip(RemoveAll(t, <<47, 97, 100, 100, 95, 97, 100, 109, 105, 110>> (* '/add_admin' *)))]

(***************************************************************************)
(* State.                                                                  *)
(***************************************************************************)
VARIABLES
  admins_file,            \* admins.txt: [exists, content]
  commands_file,          \* commands.txt: its characters
  ret,                    \* the last direct call of a function: arguments and result
  servers_file,           \* servers.txt: [exists, content]
  ssh_client,             \* servers._ssh_client: "None" or "client"
  session_open,           \* the client's transport is open at the remote end
  connection_lock,        \* servers._connection_lock: 0 (free) or its holder
  is_connected,           \* servers._is_connected
  connected_server_info,  \* servers._connected_server_info: <<>> is None
  clock,                  \* time.time(), advanced by each successful connect
  probe,                  \* probe[p]: the test_client of p's is_valid_login is open
  updates,                \* the updates dispatched to handlers so far
  faults,                 \* the writes that have failed part-way so far
  pc,                     \* pc[p]: where p's handler stands
  io,                     \* io[p]: transport operations of p's request so far
  loc,                    \* loc[p]: the handler's local variables
  out                     \* what the last step returned to a requester, if it did

vars ==
  << admins_file, commands_file, ret, servers_file, ssh_client, session_open,
     connection_lock, is_connected, connected_server_info, clock, probe,
     updates, faults, pc, io, loc, out >>

session == << ssh_client, session_open, is_connected, connected_server_info, clock >>

NoOut ==
  [p |-> 0, kind |-> "none", op |-> "none", ok |-> FALSE, msg |-> "",
   reply |-> "", io |-> <<>>]

\* direct: the core operation was called directly, not by a handler;
\* before: del_server's servers before the pop; record: add_server's arguments;
\* checked: the text the handler gave to validate_command; commands: the
\* lines remove_command writes back; admins: the entries remove_admin writes
\* back
NoLoc ==
  [n |-> 0, servers |-> <<>>, target |-> <<>>, cmd |-> <<>>, checked |-> <<>>,
   valid |-> FALSE, file_exists |-> FALSE, record |-> <<>>,
   before |-> <<>>, direct |-> FALSE, new_admin |-> <<>>, admins |-> <<>>,
   commands |-> <<>>]

\* no function of utils.py has been called directly, and get_servers_data
\* has returned nothing to a direct caller
NoRet ==
  [fn |-> "none", text |-> <<>>, blocked |-> <<>>, allowed |-> <<>>,
   sanitized |-> <<>>, verdict |-> [ok |-> FALSE, reason |-> "", pattern |-> <<>>],
   servers |-> <<>>]

\* the bot after init_files.py (commands.txt empty, servers.txt with its
\* header) and with the admins the operator wrote into admins.txt
Init ==
  /\ admins_file \in {[exists |-> TRUE, content |-> c] : c \in AdminFiles}
  /\ commands_file = <<>>
  /\ ret = NoRet
  /\ servers_file = [exists |-> TRUE, content |-> HeaderLine]
  /\ ssh_client = "None"
  /\ session_open = FALSE
  /\ connection_lock = 0
  /\ is_connected = FALSE
  /\ connected_server_info = <<>>
  /\ clock = 0
  /\ probe = [p \in Procs |-> FALSE]
  /\ updates = 0
  /\ faults = 0
  /\ pc = [p \in Procs |-> "idle"]
  /\ io = [p \in Procs |-> <<>>]
  /\ loc = [p \in Procs |-> NoLoc]
  /\ out = NoOut

(***************************************************************************)
(* Shared helpers of the handlers.                                         *)
(***************************************************************************)
\* bot.py: is_admin_user(user_chat_id) or is_admin_user(username), with
\* get_user_info(update): the values the gate can have; is_admin_user looks
\* up str(user_id), and str(None) is 'None'; each of the two calls reads
\* admins.txt, and a read that fails makes its call False
HandlerGate(p, update) ==
  LET user == get_user_info(p, update)
  IN  { by_id \/ by_name :
          by_id \in is_admin_user(IF user.id = <<>> THEN <<78, 111, 110, 101>> (* 'None' *)
                                  ELSE PyStrInt(user.id[1]),
                                  admins_file),
          by_name \in is_admin_user(IF user.username = <<>> THEN <<78, 111, 110, 101>> (* 'None' *)
                                    ELSE user.username[1],
                                    admins_file) }

\* servers.py: is_connected_to_server
is_connected_to_server == is_connected

\* servers.py 128: len(row) >= 3
HasThreeFields(row) == Len(row) >= 3

\* servers.py 119-130: the rows get_servers_data appends when it reads all
\* of file: none when the file is absent, else the rows after the first with
\* >= 3 fields
ServersIn(file) ==
  IF ~file.exists THEN <<>>
  ELSE LET rows == csv_reader(file.content)
       IN  IF rows = <<>> THEN <<>> ELSE SelectSeq(Tail(rows), HasThreeFields)

\* servers.py 112-133: get_servers_data(): what a call can return: all the
\* rows, or, when the open or the read raises (131-133: the error is logged
\* and the list built so far is returned), the rows appended before it: none
\* if it raises at once, all of them if it raises behind the last; raised
\* tells that the error was logged
get_servers_data ==
  LET servers == ServersIn(servers_file)
  IN  {[rows |-> servers, raised |-> FALSE]}
      \cup (IF servers_file.exists
            THEN {[rows |-> SubSeq(servers, 1, k), raised |-> TRUE] : k \in 0..Len(servers)}
            ELSE {})

\* bot.py 409-418: get_default_commands: the lists a call can return: the
\* stripped lines of commands.txt that are not blank, or, when the read
\* raises (415-416), none
get_default_commands ==
  LET lines == SplitOn(UniversalNewlines(commands_file), 10)
  IN  { SelectSeq([i \in 1..Len(lines) |-> Strip(lines[i])], LAMBDA s : s # <<>>),
        <<>> }

\* a write that fails: the leading part of data that has reached the file
\* when the error is raised: any number of its characters, from none to all
\* of them (an error of close behind the last)
Partial(data) == {SubSeq(data, 1, k) : k \in 0..Len(data)}

\* a file opened with 'w': what was written goes to the start of the file,
\* what lies beyond it stays
WriteAtStart(content, written) ==
  written \o SubSeq(content, Len(written) + 1, Len(content))

\* what a handler replies; a direct call of a core operation has no reply
Reply(p, text) == IF loc[p].direct THEN "" ELSE text

\* the handler returns: the core operation's result, the reply it sends and
\* the transport operations its request performed (did: those of this step)
Return(p, kind, op, ok, msg, reply, did) ==
  /\ pc' = [pc EXCEPT ![p] = "idle"]
  /\ loc' = [loc EXCEPT ![p] = NoLoc]
  /\ io' = [io EXCEPT ![p] = <<>>]
  /\ out' = [p |-> p, kind |-> kind, op |-> op, ok |-> ok, msg |-> msg,
             reply |-> reply, io |-> io[p] \o did]

\* the handler goes on to its next step
Goto(p, label, did) ==
  /\ pc' = [pc EXCEPT ![p] = label]
  /\ io' = [io EXCEPT ![p] = @ \o did]
  /\ out' = NoOut

(***************************************************************************)
(* /add_server: bot.py add_server_handler, servers.py is_valid_login and   *)
(* add_server.                                                             *)
(***************************************************************************)
\* bot.py 199-232: gate, an update without a message returns, argument
\* count, then the first progress message
AddServerHandler(p, update) ==
  /\ pc[p] = "idle"
  /\ UNCHANGED << admins_file, commands_file, ret, servers_file, session, connection_lock, probe >>
  /\ \E admin \in HandlerGate(p, update) :
     IF ~admin
     THEN Return(p, "add_server", "none", FALSE, "", "need_admin", <<>>)
     ELSE IF update.message = <<>>
     THEN Return(p, "add_server", "none", FALSE, "", "no_reply", <<>>)
     ELSE IF Len(AddArgs[update.message[1]]) < 3
     THEN Return(p, "add_server", "none", FALSE, "", "usage", <<>>)
     ELSE /\ Goto(p, "add_check_ip", <<>>)
          /\ loc' = [loc EXCEPT ![p].target = SubSeq(AddArgs[update.message[1]], 1, 3)]

\* bot.py 234-244: is_valid_ip(server_ip), then the second progress message
AddServerCheckIp(p) ==
  /\ pc[p] = "add_check_ip"
  /\ UNCHANGED << admins_file, commands_file, ret, servers_file, session, connection_lock, probe >>
  /\ IF ~AddIpValid(loc[p].target[1])
     THEN Return(p, "add_server", "none", FALSE, "", "invalid_ip", <<>>)
     ELSE Goto(p, "probe_connect", <<>>) /\ UNCHANGED loc

\* servers.py 88-103: test_client.connect on a fresh client: it logs in, or
\* an exception makes the login invalid; a refused login has reached the
\* server, and its connection stays open until close()
ProbeConnect(p) ==
  /\ pc[p] = "probe_connect"
  /\ \E outcome \in {"ok", "AuthenticationException", "Exception"} :
       /\ probe' = [probe EXCEPT ![p] = (outcome # "Exception")]
       /\ loc' = [loc EXCEPT ![p].valid = (outcome = "ok")]
  /\ Goto(p, "probe_close", <<"probe_connect">>)
  /\ UNCHANGED << admins_file, commands_file, ret, servers_file, session, connection_lock >>

\* servers.py 104-109: finally: test_client.close() inside try / except
\* Exception: pass; then bot.py 246-256: the reply for a failed login, or the
\* third progress message
ProbeClose(p) ==
  /\ pc[p] = "probe_close"
  /\ \E raised \in BOOLEAN :
       IF raised
       THEN \E still \in BOOLEAN : probe' = [probe EXCEPT ![p] = (probe[p] /\ still)]
       ELSE probe' = [probe EXCEPT ![p] = FALSE]
  /\ IF loc[p].valid
     THEN Goto(p, "add_record", <<"probe_close">>) /\ UNCHANGED loc
     ELSE Return(p, "add_server", "is_valid_login", FALSE, "", "login_failed",
                 <<"probe_close">>)
  /\ UNCHANGED << admins_file, commands_file, ret, servers_file, session, connection_lock >>

\* bot.py 258-259: the timestamp and the arguments of add_server
AddServerRecord(p) ==
  /\ pc[p] = "add_record"
  /\ loc' = [loc EXCEPT ![p].record =
               loc[p].target \o <<PyStrInt(User(p).id), Timestamp>>]
  /\ Goto(p, "add_exists", <<>>)
  /\ UNCHANGED << admins_file, commands_file, ret, servers_file, session, connection_lock, probe >>

\* servers.py 151: file_exists = os.path.exists(SERVERS_FILE)
AddExists(p) ==
  /\ pc[p] = "add_exists"
  /\ loc' = [loc EXCEPT ![p].file_exists = servers_file.exists]
  /\ Goto(p, "add_open", <<>>)
  /\ UNCHANGED << admins_file, commands_file, ret, servers_file, session, connection_lock, probe >>

\* servers.py 153: open(SERVERS_FILE, 'a') creates the file if there is none;
\* an error of open is answered by the except clause (162-164, bot.py 272-276)
AddOpen(p) ==
  /\ pc[p] = "add_open"
  /\ \E opened \in BOOLEAN :
       IF opened
       THEN /\ servers_file' =
                 [exists |-> TRUE,
                  content |-> IF servers_file.exists THEN servers_file.content ELSE <<>>]
            /\ Goto(p, "add_write", <<>>)
            /\ UNCHANGED loc
       ELSE /\ UNCHANGED servers_file
            /\ Return(p, "add_server", "add_server", FALSE, "raised",
                      Reply(p, "failed"), <<>>)
  /\ UNCHANGED << admins_file, commands_file, ret, session, connection_lock, probe >>

\* servers.py 154-161: the header if the file was absent, then the row; they
\* reach the end of the file when it closes; a write that fails leaves a
\* leading part of them at the end of the file and is answered by the except
\* clause (162-164, bot.py 272-276)
AddWrite(p) ==
  /\ pc[p] = "add_write"
  /\ LET content == IF servers_file.exists THEN servers_file.content ELSE <<>>
         data == (IF loc[p].file_exists THEN <<>> ELSE HeaderLine)
                 \o csv_writerow(loc[p].record)
     IN  \E written \in BOOLEAN :
           IF written
           THEN /\ servers_file' = [exists |-> TRUE, content |-> content \o data]
                /\ Return(p, "add_server", "add_server", TRUE, "", Reply(p, "added"), <<>>)
           ELSE /\ \E part \in Partial(data) :
                     servers_file' = [exists |-> TRUE, content |-> content \o part]
                /\ Return(p, "add_server", "add_server", FALSE, "raised",
                          Reply(p, "failed"), <<>>)
  /\ UNCHANGED << admins_file, commands_file, ret, session, connection_lock, probe >>


(***************************************************************************)
(* /del_server: bot.py del_server_handler, servers.py del_server.          *)
(***************************************************************************)
\* del_server_handler without its own range check (bot.py 163-169)
DelServerHandlerUnchecked(p, update) ==
  /\ pc[p] = "idle"
  /\ UNCHANGED << admins_file, commands_file, ret, servers_file, session, connection_lock, probe >>
  /\ \E admin \in HandlerGate(p, update) :
     IF ~admin
     THEN Return(p, "del_server", "none", FALSE, "", "need_admin", <<>>)
     ELSE IF update.message = <<>>
     THEN Return(p, "del_server", "none", FALSE, "", "no_reply", <<>>)
     ELSE IF ~IsDigit(DelData[update.message[1]])
     THEN Return(p, "del_server", "none", FALSE, "", "usage", <<>>)
     ELSE IF ~IntParses(DelData[update.message[1]])
     THEN Return(p, "del_server", "none", FALSE, "", "error", <<>>)
     ELSE /\ Goto(p, "del_read", <<>>)
          /\ loc' = [loc EXCEPT ![p].n = IntOf(DelData[update.message[1]])]

\* bot.py 136-171: gate, an update without a message returns, the number
\* is a digit string, int(), the handler's own read of the inventory (what
\* a read that raises returns is shorter) and range check
DelServerHandler(p, update) ==
  /\ pc[p] = "idle"
  /\ UNCHANGED << admins_file, commands_file, ret, servers_file, session, connection_lock, probe >>
  /\ \E admin \in HandlerGate(p, update) :
     IF ~admin
     THEN Return(p, "del_server", "none", FALSE, "", "need_admin", <<>>)
     ELSE IF update.message = <<>>
     THEN Return(p, "del_server", "none", FALSE, "", "no_reply", <<>>)
     ELSE IF ~IsDigit(DelData[update.message[1]])
     THEN Return(p, "del_server", "none", FALSE, "", "usage", <<>>)
     ELSE IF ~IntParses(DelData[update.message[1]])
     THEN Return(p, "del_server", "none", FALSE, "", "error", <<>>)
     ELSE \E servers \in {read.rows : read \in get_servers_data} :
     IF \/ IntOf(DelData[update.message[1]]) < 1
        \/ IntOf(DelData[update.message[1]]) > Len(servers)
     THEN Return(p, "del_server", "none", FALSE, "", "no_such_server", <<>>)
     ELSE /\ Goto(p, "del_read", <<>>)
          /\ loc' = [loc EXCEPT ![p].n = IntOf(DelData[update.message[1]])]

\* del_server without the check server_number < 1: servers.pop(n - 1) with
\* a negative index counts from the end, and an IndexError returns False
DelReadNoLowerBound(p) ==
  /\ pc[p] = "del_read"
  /\ \E read \in get_servers_data :
     LET servers == read.rows
         n == loc[p].n
         k == IF n >= 1 THEN n ELSE Len(servers) + n
     IN  IF ~servers_file.exists \/ n > Len(servers) \/ k < 1
         THEN Return(p, "del_server", "del_server", FALSE,
                     IF read.raised THEN "raised" ELSE "",
                     Reply(p, "failed"), <<>>)
         ELSE /\ Goto(p, "del_open", <<>>)
              /\ loc' = [loc EXCEPT
                           ![p].before = servers,
                           ![p].servers = SubSeq(servers, 1, k - 1)
                                          \o SubSeq(servers, k + 1, Len(servers))]
  /\ UNCHANGED << admins_file, commands_file, ret, servers_file, session, connection_lock, probe >>

\* servers.py 178-186: exists, read, range check, pop; a read that raises
\* gives the rows before the error (131-133): the position is then out of
\* range and the call returns False (181-183), or it is among those rows and
\* the call goes on with them; msg tells that the read has logged an error
DelRead(p) ==
  /\ pc[p] = "del_read"
  /\ \E read \in get_servers_data :
     LET servers == read.rows
         n == loc[p].n
     IN  IF ~servers_file.exists \/ n < 1 \/ n > Len(servers)
         THEN Return(p, "del_server", "del_server", FALSE,
                     IF read.raised THEN "raised" ELSE "",
                     Reply(p, "failed"), <<>>)
         ELSE /\ Goto(p, "del_open", <<>>)
              /\ loc' = [loc EXCEPT
                           ![p].before = servers,
                           ![p].servers = SubSeq(servers, 1, n - 1)
                                          \o SubSeq(servers, n + 1, Len(servers))]
  /\ UNCHANGED << admins_file, commands_file, ret, servers_file, session, connection_lock, probe >>

\* servers.py 189: open(SERVERS_FILE, 'w') empties the file; an error of open
\* is answered by the except clause (197-199, bot.py 186-190)
DelOpen(p) ==
  /\ pc[p] = "del_open"
  /\ \E opened \in BOOLEAN :
       IF opened
       THEN /\ servers_file' = [exists |-> TRUE, content |-> <<>>]
            /\ Goto(p, "del_write", <<>>)
            /\ UNCHANGED loc
       ELSE /\ UNCHANGED servers_file
            /\ Return(p, "del_server", "del_server", FALSE, "raised",
                      Reply(p, "failed"), <<>>)
  /\ UNCHANGED << admins_file, commands_file, ret, session, connection_lock, probe >>

\* servers.py 190-196: the header and the remaining rows, written from the
\* start of the file when it closes; a write that fails leaves a leading
\* part of them at the start of the file and is answered by the except
\* clause (197-199, bot.py 186-190)
DelWrite(p) ==
  /\ pc[p] = "del_write"
  /\ LET content == IF servers_file.exists THEN servers_file.content ELSE <<>>
         data == HeaderLine \o csv_writerows(loc[p].servers)
     IN  \E written \in BOOLEAN :
           IF written
           THEN /\ servers_file' =
                     [exists |-> TRUE, content |-> WriteAtStart(content, data)]
                /\ Return(p, "del_server", "del_server", TRUE, "", Reply(p, "deleted"), <<>>)
           ELSE /\ \E part \in Partial(data) :
                     servers_file' =
                       [exists |-> TRUE, content |-> WriteAtStart(content, part)]
                /\ Return(p, "del_server", "del_server", FALSE, "raised",
                          Reply(p, "failed"), <<>>)
  /\ UNCHANGED << admins_file, commands_file, ret, session, connection_lock, probe >>


(***************************************************************************)
(* /connect: bot.py connect_to_server_handler, servers.py connect_to_server*)
(***************************************************************************)
\* bot.py 302-334: gate, is_connected_to_server(), an update without a
\* message returns, the number
ConnectHandler(p, update) ==
  /\ pc[p] = "idle"
  /\ UNCHANGED << admins_file, commands_file, ret, servers_file, session, connection_lock, probe >>
  /\ \E admin \in HandlerGate(p, update) :
     IF ~admin
     THEN Return(p, "connect", "none", FALSE, "", "need_admin", <<>>)
     ELSE IF is_connected_to_server
     THEN Return(p, "connect", "none", FALSE, "", "already_connected", <<>>)
     ELSE IF update.message = <<>>
     THEN Return(p, "connect", "none", FALSE, "", "no_reply", <<>>)
     ELSE IF ~IsDigit(ConnData[update.message[1]])
     THEN Return(p, "connect", "none", FALSE, "", "usage", <<>>)
     ELSE IF ~IntParses(ConnData[update.message[1]])
     THEN Return(p, "connect", "none", FALSE, "", "error", <<>>)
     ELSE /\ Goto(p, "conn_h_read", <<>>)
          /\ loc' = [loc EXCEPT ![p].n = IntOf(ConnData[update.message[1]])]

\* bot.py 335-362: read the inventory (a read that raises gives the rows
\* before the error, so that a valid number can be answered as invalid),
\* pick the record (an IndexError on a record without added-by and date is
\* caught by the handler)
ConnectHandlerRead(p) ==
  /\ pc[p] = "conn_h_read"
  /\ \E read \in get_servers_data :
     LET servers == read.rows
         n == loc[p].n
     IN  IF n - 1 < 0 \/ n - 1 >= Len(servers)
         THEN Return(p, "connect", "none", FALSE, "", "invalid_number", <<>>)
         ELSE IF Len(servers[n]) < 5
         THEN Return(p, "connect", "none", FALSE, "", "error", <<>>)
         ELSE /\ Goto(p, "conn_lock", <<>>)
              /\ loc' = [loc EXCEPT ![p].target = SubSeq(servers[n], 1, 3)]
  /\ UNCHANGED << admins_file, commands_file, ret, servers_file, session, connection_lock, probe >>

\* connect_to_server without lines 217-218 (no already-connected return)
ConnectLockUnchecked(p) ==
  /\ pc[p] = "conn_lock"
  /\ connection_lock = 0
  /\ connection_lock' = p
  /\ ssh_client' = "client"
  /\ Goto(p, "conn_io", <<>>)
  /\ UNCHANGED << admins_file, commands_file, ret, servers_file, session_open, is_connected,
                  connected_server_info, clock, probe, loc >>

\* servers.py 216-221: with _connection_lock; already connected; get_ssh_client
ConnectLock(p) ==
  /\ pc[p] = "conn_lock"
  /\ connection_lock = 0
  /\ IF is_connected
     THEN /\ Return(p, "connect", "connect_to_server", FALSE, "already_connected",
                    "connect_failed", <<>>)
          /\ UNCHANGED << ssh_client, connection_lock >>
     ELSE /\ connection_lock' = p
          /\ ssh_client' = "client"
          /\ Goto(p, "conn_io", <<>>)
          /\ UNCHANGED loc
  /\ UNCHANGED << admins_file, commands_file, ret, servers_file, session_open, is_connected,
                  connected_server_info, clock, probe >>

\* what client.connect can do: succeed or raise one of three error classes
ConnectOutcomes == {"ok", "AuthenticationException", "SSHException", "Exception"}

\* servers.py 238-249: the message of each except clause
ConnectErrorMsg(exc) ==
  IF exc = "AuthenticationException" THEN "auth_failed"
  ELSE IF exc = "SSHException" THEN "ssh_error"
  ELSE "connection_failed"

\* connect_to_server with _is_connected set before client.connect and not
\* reset by the except clauses
ConnectIOFlagFirst(p) ==
  /\ pc[p] = "conn_io"
  /\ is_connected' = TRUE
  /\ \E outcome \in ConnectOutcomes :
       IF outcome = "ok"
       THEN /\ clock < MaxClock
            /\ session_open' = TRUE
            /\ Goto(p, "conn_set_flag", <<"connect">>)
            /\ UNCHANGED << connection_lock, loc >>
       ELSE /\ Return(p, "connect", "connect_to_server", FALSE,
                      ConnectErrorMsg(outcome), "connect_failed", <<"connect">>)
            /\ connection_lock' = 0
            /\ session_open' = (session_open \/ outcome = "AuthenticationException")
  /\ UNCHANGED << admins_file, commands_file, ret, servers_file, ssh_client,
                  connected_server_info, clock, probe >>

\* servers.py 222-229, 238-249: client.connect; an error returns (False, msg);
\* a refused login leaves the client's connection to the server open
ConnectIO(p) ==
  /\ pc[p] = "conn_io"
  /\ \E outcome \in ConnectOutcomes :
       IF outcome = "ok"
       THEN /\ clock < MaxClock
            /\ session_open' = TRUE
            /\ Goto(p, "conn_set_flag", <<"connect">>)
            /\ UNCHANGED << connection_lock, loc >>
       ELSE /\ Return(p, "connect", "connect_to_server", FALSE,
                      ConnectErrorMsg(outcome), "connect_failed", <<"connect">>)
            /\ connection_lock' = 0
            /\ session_open' = (session_open \/ outcome = "AuthenticationException")
  /\ UNCHANGED << admins_file, commands_file, ret, servers_file, ssh_client, is_connected,
                  connected_server_info, clock, probe >>

\* servers.py 230: _is_connected = True
ConnectSetFlag(p) ==
  /\ pc[p] = "conn_set_flag"
  /\ is_connected' = TRUE
  /\ Goto(p, "conn_set_info", <<>>)
  /\ UNCHANGED << admins_file, commands_file, ret, servers_file, ssh_client, session_open,
                  connection_lock, connected_server_info, clock, probe, loc >>

\* servers.py 231-237: record the session, return (True, None), leave the lock
ConnectSetInfo(p) ==
  /\ pc[p] = "conn_set_info"
  /\ clock' = clock + 1
  /\ connected_server_info' =
       << [ip |-> loc[p].target[1], username |-> loc[p].target[2],
           connected_at |-> clock + 1] >>
  /\ connection_lock' = 0
  /\ Return(p, "connect", "connect_to_server", TRUE, "", "connected", <<>>)
  /\ UNCHANGED << admins_file, commands_file, ret, servers_file, ssh_client, session_open,
                  is_connected, probe >>

(***************************************************************************)
(* /disconnect: bot.py disconnect_from_server_handler, servers.py          *)
(* disconnect_from_server.                                                 *)
(***************************************************************************)
\* bot.py 384-395: gate; the handler reads nothing else of the update
DisconnectHandler(p, update) ==
  /\ pc[p] = "idle"
  /\ UNCHANGED << admins_file, commands_file, ret, servers_file, session, connection_lock, probe >>
  /\ \E admin \in HandlerGate(p, update) :
     IF ~admin
     THEN Return(p, "disconnect", "none", FALSE, "", "need_admin", <<>>)
     ELSE Goto(p, "disc_lock", <<>>) /\ UNCHANGED loc

\* disconnect_from_server without lines 262-263 (no not-connected return)
DisconnectLockUnchecked(p) ==
  /\ pc[p] = "disc_lock"
  /\ connection_lock = 0
  /\ connection_lock' = p
  /\ Goto(p, "disc_close", <<>>)
  /\ UNCHANGED << admins_file, commands_file, ret, servers_file, session, probe, loc >>

\* servers.py 261-263: with _connection_lock; not connected returns False
DisconnectLock(p) ==
  /\ pc[p] = "disc_lock"
  /\ connection_lock = 0
  /\ IF ~is_connected
     THEN /\ Return(p, "disconnect", "disconnect_from_server", FALSE,
                    "not_connected", "disconnect_failed", <<>>)
          /\ UNCHANGED connection_lock
     ELSE /\ connection_lock' = p
          /\ Goto(p, "disc_close", <<>>)
          /\ UNCHANGED loc
  /\ UNCHANGED << admins_file, commands_file, ret, servers_file, session, probe >>

\* servers.py 266-267: if _ssh_client: _ssh_client.close(), which may raise;
\* a close that raised leaves the transport open or closed
DisconnectClose(p) ==
  /\ pc[p] = "disc_close"
  /\ IF ssh_client = "None"
     THEN /\ Goto(p, "disc_clear_flag", <<>>)
          /\ UNCHANGED session_open
     ELSE \E raised \in BOOLEAN :
            IF raised
            THEN /\ \E still \in BOOLEAN : session_open' = (session_open /\ still)
                 /\ Goto(p, "disc_except", <<"close">>)
            ELSE /\ session_open' = FALSE
                 /\ Goto(p, "disc_clear_client", <<"close">>)
  /\ UNCHANGED << admins_file, commands_file, ret, servers_file, ssh_client, connection_lock,
                  is_connected, connected_server_info, clock, probe, loc >>

\* servers.py 268: _ssh_client = None
DisconnectClearClient(p) ==
  /\ pc[p] = "disc_clear_client"
  /\ ssh_client' = "None"
  /\ Goto(p, "disc_clear_flag", <<>>)
  /\ UNCHANGED << admins_file, commands_file, ret, servers_file, session_open, connection_lock,
                  is_connected, connected_server_info, clock, probe, loc >>

\* servers.py 269: _is_connected = False
DisconnectClearFlag(p) ==
  /\ pc[p] = "disc_clear_flag"
  /\ is_connected' = FALSE
  /\ Goto(p, "disc_clear_info", <<>>)
  /\ UNCHANGED << admins_file, commands_file, ret, servers_file, ssh_client, session_open,
                  connection_lock, connected_server_info, clock, probe, loc >>

\* servers.py 270-272: _connected_server_info = None; return True
DisconnectClearInfo(p) ==
  /\ pc[p] = "disc_clear_info"
  /\ connected_server_info' = <<>>
  /\ connection_lock' = 0
  /\ Return(p, "disconnect", "disconnect_from_server", TRUE, "", "disconnected", <<>>)
  /\ UNCHANGED << admins_file, commands_file, ret, servers_file, ssh_client, session_open,
                  is_connected, clock, probe >>

\* an except clause that returns without leaving the lock
DisconnectExceptKeepsLock(p) ==
  /\ pc[p] = "disc_except"
  /\ is_connected' = FALSE
  /\ connected_server_info' = <<>>
  /\ Return(p, "disconnect", "disconnect_from_server", FALSE, "close_raised",
            "disconnect_failed", <<>>)
  /\ UNCHANGED << admins_file, commands_file, ret, servers_file, ssh_client, session_open,
                  connection_lock, clock, probe >>

\* an except clause that resets the flag alone
DisconnectExceptKeepsInfo(p) ==
  /\ pc[p] = "disc_except"
  /\ is_connected' = FALSE
  /\ connection_lock' = 0
  /\ Return(p, "disconnect", "disconnect_from_server", FALSE, "close_raised",
            "disconnect_failed", <<>>)
  /\ UNCHANGED << admins_file, commands_file, ret, servers_file, ssh_client, session_open,
                  connected_server_info, clock, probe >>

\* servers.py 273-277: except: clear the flag and the info, return False
DisconnectExcept(p) ==
  /\ pc[p] = "disc_except"
  /\ is_connected' = FALSE
  /\ connected_server_info' = <<>>
  /\ connection_lock' = 0
  /\ Return(p, "disconnect", "disconnect_from_server", FALSE, "close_raised",
            "disconnect_failed", <<>>)
  /\ UNCHANGED << admins_file, commands_file, ret, servers_file, ssh_client, session_open,
                  clock, probe >>

(***************************************************************************)
(* Plain text messages: bot.py command_handler and handle_command,         *)
(* servers.py do_command.                                                  *)
(***************************************************************************)
\* a filter that accepts every command
AcceptEverything(sanitized_text) ==
  [ok |-> TRUE, reason |-> "", pattern |-> <<>>]

\* bot.py 553: validate_command(sanitized_text, Config.BLOCKED_COMMANDS)
HandleCommandFilter(sanitized_text) ==
  validate_command(sanitized_text, BLOCKED_COMMANDS, <<>>)

\* the filter's verdict on each message, computed once
Verdict == [t \in CmdTexts \cup MoreCmdTexts |-> HandleCommandFilter(Sanitized[t])]

\* bot.py 572-595 and 548-556: no gate; an update without a message
\* returns; group chats are refused; is_connected_to_server(); sanitize, then
\* the filter
CommandHandler(p, update, chat) ==
  /\ pc[p] = "idle"
  /\ UNCHANGED << admins_file, commands_file, ret, servers_file, session, connection_lock, probe >>
  /\ IF update.message = <<>>
     THEN Return(p, "command", "none", FALSE, "", "no_reply", <<>>)
     ELSE IF chat = "group"
     THEN Return(p, "command", "none", FALSE, "", "no_groups", <<>>)
     ELSE IF ~is_connected_to_server
     THEN Return(p, "command", "none", FALSE, "", "not_connected", <<>>)
     ELSE IF ~Verdict[update.message[1]].ok
     THEN Return(p, "command", "none", FALSE, Verdict[update.message[1]].reason,
                 "rejected", <<>>)
     ELSE /\ Goto(p, "cmd_check", <<>>)
          /\ loc' = [loc EXCEPT ![p].cmd = Sanitized[update.message[1]],
                                ![p].checked = Sanitized[update.message[1]]]

\* an except clause for paramiko.SSHException alone
CatchesOnlySSHException(exc) == exc = "SSHException"

\* servers.py 301: except Exception catches every exception the transport
\* can raise inside do_command
do_command_catches(exc) == exc \in {"AttributeError", "SSHException", "timeout"}

\* servers.py 301-303 and bot.py 567-569: the error result of do_command, or,
\* for an exception do_command lets through, the handler's own except clause
Raise(p, exc, did) ==
  IF do_command_catches(exc)
  THEN Return(p, "command", "do_command", FALSE, "execution_failed", "done", did)
  ELSE Return(p, "command", "do_command", FALSE, "raised", "execution_failed", did)

\* servers.py 293-294: if not _is_connected or _ssh_client is None
CommandCheck(p) ==
  /\ pc[p] = "cmd_check"
  /\ IF ~is_connected \/ ssh_client = "None"
     THEN Return(p, "command", "do_command", FALSE, "not_connected", "done", <<>>)
     ELSE Goto(p, "cmd_exec", <<>>) /\ UNCHANGED loc
  /\ UNCHANGED << admins_file, commands_file, ret, servers_file, session, connection_lock, probe >>

\* servers.py 297: _ssh_client.exec_command(command, timeout=timeout); the
\* global is read again; a closed transport raises, an open one may
CommandExec(p) ==
  /\ pc[p] = "cmd_exec"
  /\ IF ssh_client = "None"
     THEN Raise(p, "AttributeError", <<>>)
     ELSE \E outcome \in {"ok", "SSHException"} :
            IF outcome = "ok"
            THEN /\ session_open
                 /\ Goto(p, "cmd_read", <<"exec_command">>)
                 /\ UNCHANGED loc
            ELSE Raise(p, "SSHException", <<"exec_command">>)
  /\ UNCHANGED << admins_file, commands_file, ret, servers_file, session, connection_lock, probe >>

\* do_command with an except clause that gives the session up
CommandReadResetting(p) ==
  /\ pc[p] = "cmd_read"
  /\ \E outcome \in {"ok", "timeout"} :
       IF outcome = "ok"
       THEN /\ Return(p, "command", "do_command", TRUE, "", "done", <<"read">>)
            /\ UNCHANGED is_connected
       ELSE /\ Raise(p, "timeout", <<"read">>)
            /\ is_connected' = FALSE
  /\ UNCHANGED << admins_file, commands_file, ret, servers_file, ssh_client, session_open,
                  connected_server_info, clock, connection_lock, probe >>

\* servers.py 298-300: read stdout and stderr to the end, or time out
CommandRead(p) ==
  /\ pc[p] = "cmd_read"
  /\ \E outcome \in {"ok", "timeout"} :
       IF outcome = "ok"
       THEN Return(p, "command", "do_command", TRUE, "", "done", <<"read">>)
       ELSE Raise(p, "timeout", <<"read">>)
  /\ UNCHANGED << admins_file, commands_file, ret, servers_file, session, connection_lock, probe >>

(***************************************************************************)
(* /servers_list: bot.py servers_list, utils.py format_server_list.        *)
(***************************************************************************)
\* utils.py 96-118: format_server_list: the number, ip, added-by and date of
\* every server; server[3] or server[4] of a shorter row raises IndexError
format_server_list(servers) ==
  IF servers = <<>> THEN [raised |-> FALSE, table |-> <<>>]
  ELSE IF \E i \in 1..Len(servers) : Len(servers[i]) < 5
  THEN [raised |-> TRUE, table |-> <<>>]
  ELSE [raised |-> FALSE,
        table |-> [i \in 1..Len(servers) |->
                     <<i, servers[i][1], servers[i][4], servers[i][5]>>]]

\* bot.py 285-299: gate, get_servers_data, format_server_list; an exception
\* leaves the handler and is answered by error_handler (bot.py 603-613)
ServersListHandler(p, update) ==
  /\ pc[p] = "idle"
  /\ UNCHANGED << admins_file, commands_file, ret, servers_file, session,
                  connection_lock, probe >>
  /\ \E admin \in HandlerGate(p, update) :
     IF ~admin
     THEN Return(p, "servers_list", "none", FALSE, "", "need_admin", <<>>)
     ELSE \E servers \in {read.rows : read \in get_servers_data} :
          LET formatted == format_server_list(servers)
          IN  IF formatted.raised
              THEN Return(p, "servers_list", "format_server_list", FALSE,
                          "raised", "error", <<>>)
              ELSE Return(p, "servers_list", "format_server_list", TRUE, "",
                          IF formatted.table = <<>> THEN "no_servers" ELSE "table",
                          <<>>)

\* the network or the remote host drops the session's transport
TransportDrop ==
  /\ session_open
  /\ session_open' = FALSE
  /\ out' = NoOut
  /\ UNCHANGED << admins_file, commands_file, ret, servers_file, ssh_client, connection_lock,
                  is_connected, connected_server_info, clock, probe, pc, io, loc >>

(***************************************************************************)
(* /add_admin: bot.py add_admin, authentication.py add_admin_to_file; and  *)
(* authentication.py remove_admin, which no handler calls.                 *)
(***************************************************************************)
\* bot.py 99-121: the gate looks up the chat id alone; an update without a
\* message returns; the text after the command name
AddAdminHandler(p, update) ==
  /\ pc[p] = "idle"
  /\ UNCHANGED << admins_file, commands_file, ret, servers_file, session, connection_lock, probe >>
  /\ \E admin \in is_admin_user(IF get_user_info(p, update).id = <<>>
                                 THEN <<78, 111, 110, 101>> (* 'None' *)
                                 ELSE PyStrInt(get_user_info(p, update).id[1]),
                                 admins_file) :
     IF ~admin
     THEN Return(p, "add_admin", "none", FALSE, "", "need_admin", <<>>)
     ELSE IF update.message = <<>>
     THEN Return(p, "add_admin", "none", FALSE, "", "no_reply", <<>>)
     ELSE IF AddAdminData[update.message[1]] = <<>>
     THEN Return(p, "add_admin", "none", FALSE, "", "usage", <<>>)
     ELSE /\ Goto(p, "addadm_check", <<>>)
          /\ loc' = [loc EXCEPT ![p].new_admin = AddAdminData[update.message[1]]]

\* authentication.py 52-60: strip; an empty id returns False; an id that
\* is_admin_user finds returns True and writes nothing; is_admin_user is
\* False also when its read fails
AddAdminCheck(p) ==
  /\ pc[p] = "addadm_check"
  /\ LET new_admin == Strip(loc[p].new_admin)
     IN  IF new_admin = <<>>
         THEN Return(p, "add_admin", "add_admin_to_file", FALSE, "empty",
                     Reply(p, "failed"), <<>>)
         ELSE \E already \in is_admin_user(new_admin, admins_file) :
         IF already
         THEN Return(p, "add_admin", "add_admin_to_file", TRUE, "already",
                     Reply(p, "admin_added"), <<>>)
         ELSE /\ Goto(p, "addadm_exists", <<>>)
              /\ loc' = [loc EXCEPT ![p].new_admin = new_admin]
  /\ UNCHANGED << admins_file, commands_file, ret, servers_file, session, connection_lock, probe >>

\* authentication.py 63: file_exists = os.path.exists(ADMINS_FILE)
AddAdminExists(p) ==
  /\ pc[p] = "addadm_exists"
  /\ loc' = [loc EXCEPT ![p].file_exists = admins_file.exists]
  /\ Goto(p, "addadm_open", <<>>)
  /\ UNCHANGED << admins_file, commands_file, ret, servers_file, session, connection_lock, probe >>

\* authentication.py 65: open(ADMINS_FILE, 'a') creates the file if there is
\* none; an error of open is answered by the except clause (73-75)
AddAdminOpen(p) ==
  /\ pc[p] = "addadm_open"
  /\ \E opened \in BOOLEAN :
       IF opened
       THEN /\ admins_file' =
                 [exists |-> TRUE,
                  content |-> IF admins_file.exists THEN admins_file.content ELSE <<>>]
            /\ Goto(p, "addadm_write", <<>>)
            /\ UNCHANGED loc
       ELSE /\ UNCHANGED admins_file
            /\ Return(p, "add_admin", "add_admin_to_file", FALSE, "raised",
                      Reply(p, "failed"), <<>>)
  /\ UNCHANGED << commands_file, ret, servers_file, session, connection_lock, probe >>

\* authentication.py 66-72: ',' and the id, or the id alone if the file was
\* absent; they reach the end of the file when it closes; a write that fails
\* leaves a leading part of them at the end of the file and is answered by
\* the except clause (73-75)
AddAdminWrite(p) ==
  /\ pc[p] = "addadm_write"
  /\ LET content == IF admins_file.exists THEN admins_file.content ELSE <<>>
         data == (IF loc[p].file_exists THEN <<44>> ELSE <<>>) \o loc[p].new_admin
     IN  \E written \in BOOLEAN :
           IF written
           THEN /\ admins_file' = [exists |-> TRUE, content |-> content \o data]
                /\ Return(p, "add_admin", "add_admin_to_file", TRUE, "",
                          Reply(p, "admin_added"), <<>>)
           ELSE /\ \E part \in Partial(data) :
                     admins_file' = [exists |-> TRUE, content |-> content \o part]
                /\ Return(p, "add_admin", "add_admin_to_file", FALSE, "raised",
                          Reply(p, "failed"), <<>>)
  /\ UNCHANGED << commands_file, ret, servers_file, session, connection_lock, probe >>

\* list.remove(x): the list without the first element equal to x
RECURSIVE RemoveFirst(_, _)
RemoveFirst(list, x) ==
  IF list = <<>> THEN <<>>
  ELSE IF Head(list) = x THEN Tail(list)
  ELSE <<Head(list)>> \o RemoveFirst(Tail(list), x)

\* sep.join(list)
RECURSIVE Join(_, _)
Join(list, sep) ==
  IF list = <<>> THEN <<>>
  ELSE IF Len(list) = 1 THEN list[1]
  ELSE list[1] \o sep \o Join(Tail(list), sep)

\* authentication.py 89-101: exists, read, the id is among the entries,
\* admins.remove; an open or a read that fails is answered by the except
\* clause (108-110)
RemoveAdminRead(p) ==
  /\ pc[p] = "rmadm_read"
  /\ LET content == Strip(UniversalNewlines(admins_file.content))
         parts == SplitOn(content, 44)
         admins == SelectSeq([i \in 1..Len(parts) |-> Strip(parts[i])],
                             LAMBDA s : s # <<>>)
     IN  \E read \in BOOLEAN :
         IF admins_file.exists /\ ~read
         THEN Return(p, "remove_admin", "remove_admin", FALSE, "raised", "", <<>>)
         ELSE IF \/ ~admins_file.exists
                 \/ content = <<>>
                 \/ \A i \in 1..Len(admins) : admins[i] # loc[p].new_admin
         THEN Return(p, "remove_admin", "remove_admin", FALSE, "", "", <<>>)
         ELSE /\ Goto(p, "rmadm_open", <<>>)
              /\ loc' = [loc EXCEPT ![p].admins = RemoveFirst(admins, loc[p].new_admin)]
  /\ UNCHANGED << admins_file, commands_file, ret, servers_file, session, connection_lock, probe >>

\* authentication.py 103: open(ADMINS_FILE, 'w') empties the file; an error
\* of open is answered by the except clause (108-110)
RemoveAdminOpen(p) ==
  /\ pc[p] = "rmadm_open"
  /\ \E opened \in BOOLEAN :
       IF opened
       THEN /\ admins_file' = [exists |-> TRUE, content |-> <<>>]
            /\ Goto(p, "rmadm_write", <<>>)
            /\ UNCHANGED loc
       ELSE /\ UNCHANGED admins_file
            /\ Return(p, "remove_admin", "remove_admin", FALSE, "raised", "", <<>>)
  /\ UNCHANGED << commands_file, ret, servers_file, session, connection_lock, probe >>

\* authentication.py 104-107: ','.join(admins), written from the start of the
\* file when it closes; a write that fails leaves a leading part of it at
\* the start of the file and is answered by the except clause (108-110)
RemoveAdminWrite(p) ==
  /\ pc[p] = "rmadm_write"
  /\ LET content == IF admins_file.exists THEN admins_file.content ELSE <<>>
         data == Join(loc[p].admins, <<44>>)
     IN  \E written \in BOOLEAN :
           IF written
           THEN /\ admins_file' =
                     [exists |-> TRUE, content |-> WriteAtStart(content, data)]
                /\ Return(p, "remove_admin", "remove_admin", TRUE, "", "", <<>>)
           ELSE /\ \E part \in Partial(data) :
                     admins_file' =
                       [exists |-> TRUE, content |-> WriteAtStart(content, part)]
                /\ Return(p, "remove_admin", "remove_admin", FALSE, "raised", "", <<>>)
  /\ UNCHANGED << commands_file, ret, servers_file, session, connection_lock, probe >>

(***************************************************************************)
(* /add_command and /remove_command: bot.py add_command, remove_command.   *)
(***************************************************************************)
\* bot.py 444-469: no gate; an update without a message returns; the text
\* after the command name; validate_command on that text; then sanitize_input
AddCommandHandler(p, update) ==
  /\ pc[p] = "idle"
  /\ UNCHANGED << admins_file, commands_file, ret, servers_file, session,
                  connection_lock, probe >>
  /\ LET command_text == AddCmdData[update.message[1]]
         verdict == validate_command(command_text, BLOCKED_COMMANDS, <<>>)
     IN  IF update.message = <<>>
         THEN Return(p, "add_command", "none", FALSE, "", "no_reply", <<>>)
         ELSE IF command_text = <<>>
         THEN Return(p, "add_command", "none", FALSE, "", "usage", <<>>)
         ELSE IF ~verdict.ok
         THEN Return(p, "add_command", "none", FALSE, verdict.reason,
                     "rejected", <<>>)
         ELSE /\ Goto(p, "addcmd_write", <<>>)
              /\ loc' = [loc EXCEPT ![p].checked = command_text,
                                    ![p].cmd = sanitize_input(command_text)]

\* bot.py 471-485: open(COMMANDS_FILE, 'a'); the line reaches the end of the
\* file when it closes; an error of open is answered by the except clause
\* and leaves the file as it is, an error of write leaves a leading part of
\* the line at its end
AddCommandWrite(p) ==
  /\ pc[p] = "addcmd_write"
  /\ \E written \in BOOLEAN :
       IF written
       THEN /\ commands_file' = commands_file \o loc[p].cmd \o <<10>>
            /\ Return(p, "add_command", "add_command", TRUE, "", "command_added", <<>>)
       ELSE /\ \E part \in Partial(loc[p].cmd \o <<10>>) :
                 commands_file' = commands_file \o part
            /\ Return(p, "add_command", "add_command", FALSE, "raised",
                      "failed", <<>>)
  /\ UNCHANGED << admins_file, ret, servers_file, session, connection_lock, probe >>

\* list without its n-th element
RemoveAt(list, n) ==
  [i \in 1..(Len(list) - 1) |-> IF i < n THEN list[i] ELSE list[i + 1]]

\* bot.py 488-513: no gate; an update without a message returns; the number
\* is a digit string, int(), the read of commands.txt (none of its lines if
\* the read raises), the range check, commands.pop
RemoveCommandHandler(p, update) ==
  /\ pc[p] = "idle"
  /\ UNCHANGED << admins_file, commands_file, ret, servers_file, session,
                  connection_lock, probe >>
  /\ \E commands \in get_default_commands :
     LET command_text == RemoveCmdData[update.message[1]]
         command_index == IntOf(command_text) - 1
     IN  IF update.message = <<>>
         THEN Return(p, "remove_command", "none", FALSE, "", "no_reply", <<>>)
         ELSE IF ~IsDigit(command_text)
         THEN Return(p, "remove_command", "none", FALSE, "", "usage", <<>>)
         ELSE IF ~IntParses(command_text)
         THEN Return(p, "remove_command", "none", FALSE, "", "value_error", <<>>)
         ELSE IF command_index < 0 \/ command_index >= Len(commands)
         THEN Return(p, "remove_command", "none", FALSE, "", "invalid_number", <<>>)
         ELSE /\ Goto(p, "rmcmd_open", <<>>)
              /\ loc' = [loc EXCEPT ![p].n = command_index + 1,
                                    ![p].cmd = commands[command_index + 1],
                                    ![p].commands = RemoveAt(commands, command_index + 1)]

\* bot.py 515: open(COMMANDS_FILE, 'w') empties the file; an error of open is
\* answered by the except clause (530-535)
RemoveCommandOpen(p) ==
  /\ pc[p] = "rmcmd_open"
  /\ \E opened \in BOOLEAN :
       IF opened
       THEN /\ commands_file' = <<>>
            /\ Goto(p, "rmcmd_write", <<>>)
            /\ UNCHANGED loc
       ELSE /\ UNCHANGED commands_file
            /\ Return(p, "remove_command", "remove_command", FALSE, "raised",
                      "failed", <<>>)
  /\ UNCHANGED << admins_file, ret, servers_file, session, connection_lock, probe >>

\* for command in commands: file.write(f"{command}\n")
RECURSIVE WriteLines(_)
WriteLines(commands) ==
  IF commands = <<>> THEN <<>>
  ELSE Head(commands) \o <<10>> \o WriteLines(Tail(commands))

\* bot.py 516-524: the remaining lines, written from the start of the file
\* when it closes; a write that fails leaves a leading part of them at the
\* start of the file and is answered by the except clause (530-535)
RemoveCommandWrite(p) ==
  /\ pc[p] = "rmcmd_write"
  /\ \E written \in BOOLEAN :
       IF written
       THEN /\ commands_file' = WriteAtStart(commands_file, WriteLines(loc[p].commands))
            /\ Return(p, "remove_command", "remove_command", TRUE, "",
                      "command_removed", <<>>)
       ELSE /\ \E part \in Partial(WriteLines(loc[p].commands)) :
                 commands_file' = WriteAtStart(commands_file, part)
            /\ Return(p, "remove_command", "remove_command", FALSE, "raised",
                      "failed", <<>>)
  /\ UNCHANGED << admins_file, ret, servers_file, session, connection_lock, probe >>

(***************************************************************************)
(* The system: the handlers main.py registers that change the state, each  *)
(* started by one update.                                                  *)
(***************************************************************************)
\* main.py 38-53, 61: the application dispatches one more update to a
\* handler; a write that failed part-way counts as one of the updates of the
\* behaviour
Accept == updates + faults < MaxUpdates /\ updates' = updates + 1 /\ UNCHANGED faults

\* writes that fail part-way in one behaviour
MaxFaults == 1

\* servers.py 162-164 and 197-199, authentication.py 73-75 and 108-110,
\* bot.py 480-485 and 530-535: a step that writes a file: if it raised and
\* has left a part of its data in the file, that is one more such write,
\* and it takes the place of one update or call of the behaviour
Written ==
  /\ UNCHANGED updates
  /\ IF /\ out'.msg = "raised"
        /\ << admins_file, commands_file, servers_file >>'
             # << admins_file, commands_file, servers_file >>
     THEN faults < MaxFaults /\ updates + faults < MaxUpdates /\ faults' = faults + 1
     ELSE UNCHANGED faults

Next ==
  \/ \E p \in Procs, update \in {Message(t) : t \in AddTexts} \cup {EditedMessage} :
       Accept /\ AddServerHandler(p, update)
  \/ \E p \in Procs : AddServerCheckIp(p) /\ UNCHANGED << updates, faults >>
  \/ \E p \in Procs : ProbeConnect(p) /\ UNCHANGED << updates, faults >>
  \/ \E p \in Procs : ProbeClose(p) /\ UNCHANGED << updates, faults >>
  \/ \E p \in Procs : AddServerRecord(p) /\ UNCHANGED << updates, faults >>
  \/ \E p \in Procs : AddExists(p) /\ UNCHANGED << updates, faults >>
  \/ \E p \in Procs : AddOpen(p) /\ UNCHANGED << updates, faults >>
  \/ \E p \in Procs : AddWrite(p) /\ Written
  \/ \E p \in Procs, update \in {Message(t) : t \in DelTexts} \cup {EditedMessage} :
       Accept /\ DelServerHandler(p, update)
  \/ \E p \in Procs : DelRead(p) /\ UNCHANGED << updates, faults >>
  \/ \E p \in Procs : DelOpen(p) /\ UNCHANGED << updates, faults >>
  \/ \E p \in Procs : DelWrite(p) /\ Written
  \/ \E p \in Procs, update \in {Message(t) : t \in ConnTexts} \cup {EditedMessage} :
       Accept /\ ConnectHandler(p, update)
  \/ \E p \in Procs : ConnectHandlerRead(p) /\ UNCHANGED << updates, faults >>
  \/ \E p \in Procs : ConnectLock(p) /\ UNCHANGED << updates, faults >>
  \/ \E p \in Procs : ConnectIO(p) /\ UNCHANGED << updates, faults >>
  \/ \E p \in Procs : ConnectSetFlag(p) /\ UNCHANGED << updates, faults >>
  \/ \E p \in Procs : ConnectSetInfo(p) /\ UNCHANGED << updates, faults >>
  \/ \E p \in Procs, update \in {Message(<<47, 100, 105, 115, 99, 111, 110, 110, 101, 99, 116>> (* '/disconnect' *)), EditedMessage, CallbackQuery} :
       Accept /\ DisconnectHandler(p, update)
  \/ \E p \in Procs : DisconnectLock(p) /\ UNCHANGED << updates, faults >>
  \/ \E p \in Procs : DisconnectClose(p) /\ UNCHANGED << updates, faults >>
  \/ \E p \in Procs : DisconnectClearClient(p) /\ UNCHANGED << updates, faults >>
  \/ \E p \in Procs : DisconnectClearFlag(p) /\ UNCHANGED << updates, faults >>
  \/ \E p \in Procs : DisconnectClearInfo(p) /\ UNCHANGED << updates, faults >>
  \/ \E p \in Procs : DisconnectExcept(p) /\ UNCHANGED << updates, faults >>
  \/ \E p \in Procs, update \in {Message(t) : t \in CmdTexts} \cup {EditedMessage}, chat \in ChatTypes :
       Accept /\ CommandHandler(p, update, chat)
  \/ \E p \in Procs : CommandCheck(p) /\ UNCHANGED << updates, faults >>
  \/ \E p \in Procs : CommandExec(p) /\ UNCHANGED << updates, faults >>
  \/ \E p \in Procs : CommandRead(p) /\ UNCHANGED << updates, faults >>
  \/ \E p \in Procs, update \in {Message(t) : t \in AddAdminTexts} \cup {EditedMessage} :
       Accept /\ AddAdminHandler(p, update)
  \/ \E p \in Procs : AddAdminCheck(p) /\ UNCHANGED << updates, faults >>
  \/ \E p \in Procs : AddAdminExists(p) /\ UNCHANGED << updates, faults >>
  \/ \E p \in Procs : AddAdminOpen(p) /\ UNCHANGED << updates, faults >>
  \/ \E p \in Procs : AddAdminWrite(p) /\ Written
  \/ \E p \in Procs, update \in {Message(t) : t \in AddCmdTexts} \cup {EditedMessage} :
       Accept /\ AddCommandHandler(p, update)
  \/ \E p \in Procs : AddCommandWrite(p) /\ Written
  \/ \E p \in Procs, update \in {Message(t) : t \in RemoveCmdTexts} \cup {EditedMessage} :
       Accept /\ RemoveCommandHandler(p, update)
  \/ \E p \in Procs : RemoveCommandOpen(p) /\ UNCHANGED << updates, faults >>
  \/ \E p \in Procs : RemoveCommandWrite(p) /\ Written
  \/ \E p \in Procs, update \in {Message(<<47, 115, 101, 114, 118, 101, 114, 115, 95, 108, 105, 115, 116>> (* '/servers_list' *)), EditedMessage, CallbackQuery} :
       Accept /\ ServersListHandler(p, update)
  \/ TransportDrop /\ UNCHANGED << updates, faults >>

Spec == Init /\ [][Next]_vars

(***************************************************************************)
(* The Server Inventory by itself: add_server, del_server and              *)
(* get_servers_data of servers.py called directly by concurrent callers,   *)
(* from every kind of servers.txt.                                         *)
(***************************************************************************)
\* direct calls of the functions of servers.py or of authentication.py in
\* one behaviour
MaxCalls == 3

\* one more direct call; updates counts the calls; a write that failed
\* part-way counts as one of the calls of the behaviour
Call == updates + faults < MaxCalls /\ updates' = updates + 1 /\ UNCHANGED faults

\* records to add: the second has a carriage return in its password
RecA ==
  << <<49, 48, 46, 48, 46, 48, 46, 53>> (* '10.0.0.5' *),
     <<98, 111, 98>> (* 'bob' *),
     <<112, 119>> (* 'pw' *),
     <<97, 100, 109, 105, 110, 49>> (* 'admin1' *),
     Timestamp >>

RecCR ==
  << <<49, 48, 46, 48, 46, 48, 46, 53>> (* '10.0.0.5' *),
     <<98, 111, 98>> (* 'bob' *),
     <<112, 13, 119>> (* 'p\rw' *),
     <<97, 100, 109, 105, 110, 49>> (* 'admin1' *),
     Timestamp >>

\* a record as the handler writes it, and a line with fewer than 3 fields
RecB ==
  << <<49, 48, 46, 48, 46, 48, 46, 57>> (* '10.0.0.9' *),
     <<97, 108>> (* 'al' *),
     <<112, 119>> (* 'pw' *),
     <<49, 48, 48>> (* '100' *),
     Timestamp >>


\* servers.txt when the calls start: absent, header only, with records, with
\* a short line between the header and a record
StoreFiles ==
  { [exists |-> FALSE, content |-> <<>>],
    [exists |-> TRUE, content |-> HeaderLine],
    [exists |-> TRUE, content |-> csv_writerows(<<Header, RecB>>)],
    [exists |-> TRUE, content |-> csv_writerows(<<Header, RecB, RecA>>)],
    [exists |-> TRUE, content |-> csv_writerows(<<Header,
                      << <<49, 48, 46, 48, 46, 48, 46, 55>> (* '10.0.0.7' *),
                      <<101, 118, 101>> (* 'eve' *) >>,
                      RecB>>)] }

InitStore ==
  /\ admins_file = [exists |-> TRUE, content |-> <<>>]
  /\ commands_file = <<>>
  /\ ret = NoRet
  /\ servers_file \in StoreFiles
  /\ ssh_client = "None"
  /\ session_open = FALSE
  /\ connection_lock = 0
  /\ is_connected = FALSE
  /\ connected_server_info = <<>>
  /\ clock = 0
  /\ probe = [p \in Procs |-> FALSE]
  /\ updates = 0
  /\ faults = 0
  /\ pc = [p \in Procs |-> "idle"]
  /\ io = [p \in Procs |-> <<>>]
  /\ loc = [p \in Procs |-> NoLoc]
  /\ out = NoOut

\* servers.py 136: add_server(server_ip, username, password, sender, timestamp)
CallAddServer(p, rec) ==
  /\ pc[p] = "idle"
  /\ Goto(p, "add_exists", <<>>)
  /\ loc' = [loc EXCEPT ![p] = [NoLoc EXCEPT !.record = rec, !.direct = TRUE]]
  /\ UNCHANGED << admins_file, commands_file, ret, servers_file, session, connection_lock, probe >>

\* servers.py 167: del_server(server_number)
CallDelServer(p, n) ==
  /\ pc[p] = "idle"
  /\ Goto(p, "del_read", <<>>)
  /\ loc' = [loc EXCEPT ![p] = [NoLoc EXCEPT !.n = n, !.direct = TRUE]]
  /\ UNCHANGED << admins_file, commands_file, ret, servers_file, session, connection_lock, probe >>

\* servers.py 112-133: get_servers_data(): one read of the file; ret holds
\* the list the call returned, and msg tells that the read logged an error
CallGetServersData(p) ==
  /\ pc[p] = "idle"
  /\ \E read \in get_servers_data :
       /\ ret' = [NoRet EXCEPT !.fn = "get_servers_data", !.servers = read.rows]
       /\ Return(p, "list", "get_servers_data", TRUE,
                 IF read.raised THEN "raised" ELSE "", "", <<>>)
  /\ UNCHANGED << admins_file, commands_file, servers_file, session, connection_lock, probe >>

NextStore ==
  \/ \E p \in Procs, rec \in {RecA, RecCR} : CallAddServer(p, rec) /\ Call
  \/ \E p \in Procs : AddExists(p) /\ UNCHANGED << updates, faults >>
  \/ \E p \in Procs : AddOpen(p) /\ UNCHANGED << updates, faults >>
  \/ \E p \in Procs : AddWrite(p) /\ Written
  \/ \E p \in Procs, n \in {-1, 0, 1, 2, 3} : CallDelServer(p, n) /\ Call
  \/ \E p \in Procs : DelRead(p) /\ UNCHANGED << updates, faults >>
  \/ \E p \in Procs : DelOpen(p) /\ UNCHANGED << updates, faults >>
  \/ \E p \in Procs : DelWrite(p) /\ Written
  \/ \E p \in Procs : CallGetServersData(p) /\ Call

SpecStore == InitStore /\ [][NextStore]_vars

(***************************************************************************)
(* The session by itself: /connect, /disconnect and plain text messages    *)
(* on an inventory of one record, for any number of requests.              *)
(***************************************************************************)
InitSession ==
  /\ admins_file \in {[exists |-> TRUE, content |-> c] : c \in AdminFiles}
  /\ commands_file = <<>>
  /\ ret = NoRet
  /\ servers_file = [exists |-> TRUE, content |-> csv_writerows(<<Header, RecB>>)]
  /\ ssh_client = "None"
  /\ session_open = FALSE
  /\ connection_lock = 0
  /\ is_connected = FALSE
  /\ connected_server_info = <<>>
  /\ clock = 0
  /\ probe = [p \in Procs |-> FALSE]
  /\ updates = 0
  /\ faults = 0
  /\ pc = [p \in Procs |-> "idle"]
  /\ io = [p \in Procs |-> <<>>]
  /\ loc = [p \in Procs |-> NoLoc]
  /\ out = NoOut

NextSession ==
  \/ \E p \in Procs, update \in {Message(t) : t \in ConnTexts} \cup {EditedMessage} :
       ConnectHandler(p, update) /\ UNCHANGED << updates, faults >>
  \/ \E p \in Procs : ConnectHandlerRead(p) /\ UNCHANGED << updates, faults >>
  \/ \E p \in Procs : ConnectLock(p) /\ UNCHANGED << updates, faults >>
  \/ \E p \in Procs : ConnectIO(p) /\ UNCHANGED << updates, faults >>
  \/ \E p \in Procs : ConnectSetFlag(p) /\ UNCHANGED << updates, faults >>
  \/ \E p \in Procs : ConnectSetInfo(p) /\ UNCHANGED << updates, faults >>
  \/ \E p \in Procs, update \in {Message(<<47, 100, 105, 115, 99, 111, 110, 110, 101, 99, 116>> (* '/disconnect' *)), EditedMessage, CallbackQuery} :
       DisconnectHandler(p, update) /\ UNCHANGED << updates, faults >>
  \/ \E p \in Procs : DisconnectLock(p) /\ UNCHANGED << updates, faults >>
  \/ \E p \in Procs : DisconnectClose(p) /\ UNCHANGED << updates, faults >>
  \/ \E p \in Procs : DisconnectClearClient(p) /\ UNCHANGED << updates, faults >>
  \/ \E p \in Procs : DisconnectClearFlag(p) /\ UNCHANGED << updates, faults >>
  \/ \E p \in Procs : DisconnectClearInfo(p) /\ UNCHANGED << updates, faults >>
  \/ \E p \in Procs : DisconnectExcept(p) /\ UNCHANGED << updates, faults >>
  \/ \E p \in Procs, update \in {Message(t) : t \in CmdTexts} \cup {EditedMessage}, chat \in ChatTypes :
       CommandHandler(p, update, chat) /\ UNCHANGED << updates, faults >>
  \/ \E p \in Procs : CommandCheck(p) /\ UNCHANGED << updates, faults >>
  \/ \E p \in Procs : CommandExec(p) /\ UNCHANGED << updates, faults >>
  \/ \E p \in Procs : CommandRead(p) /\ UNCHANGED << updates, faults >>
  \/ TransportDrop /\ UNCHANGED << updates, faults >>

SpecSession == InitSession /\ [][NextSession]_vars

(***************************************************************************)
(* The admin list by itself: is_admin_user, add_admin_to_file and          *)
(* remove_admin of authentication.py called directly by concurrent         *)
(* callers.                                                                *)
(***************************************************************************)
\* admins.txt when the calls start: absent, as init_files.py creates it,
\* with entries, and with a carriage return inside an entry
AdminStoreFiles ==
  { [exists |-> FALSE, content |-> <<>>],
    [exists |-> TRUE, content |-> <<>>],
    [exists |-> TRUE, content |-> <<49, 48, 48>> (* '100' *)],
    [exists |-> TRUE, content |-> <<49, 48, 48, 44, 50, 48, 48>> (* '100,200' *)],
    [exists |-> TRUE, content |-> <<32, 97, 108, 105, 99, 101, 32, 44>> (* ' alice ,' *)],
    [exists |-> TRUE, content |-> <<49, 48, 48, 44, 97, 13, 98>> (* '100,a\rb' *)] }

\* ids the functions are called with
AdminIds ==
  { <<49, 48, 48>> (* '100' *), <<50, 48, 48>> (* '200' *), <<32, 51, 48, 48, 32>> (* ' 300 ' *), <<>> (* '' *),
    <<97, 13, 98>> (* 'a\rb' *), <<97, 10, 98>> (* 'a\nb' *) }

InitAdmins ==
  /\ admins_file \in AdminStoreFiles
  /\ commands_file = <<>>
  /\ ret = NoRet
  /\ servers_file = [exists |-> TRUE, content |-> HeaderLine]
  /\ ssh_client = "None"
  /\ session_open = FALSE
  /\ connection_lock = 0
  /\ is_connected = FALSE
  /\ connected_server_info = <<>>
  /\ clock = 0
  /\ probe = [p \in Procs |-> FALSE]
  /\ updates = 0
  /\ faults = 0
  /\ pc = [p \in Procs |-> "idle"]
  /\ io = [p \in Procs |-> <<>>]
  /\ loc = [p \in Procs |-> NoLoc]
  /\ out = NoOut

\* authentication.py 13: is_admin_user(user_id): one read of the file, which
\* may fail
CallIsAdminUser(p, user_id) ==
  /\ pc[p] = "idle"
  /\ \E admin \in is_admin_user(user_id, admins_file) :
       Return(p, "is_admin_user", "is_admin_user", admin, "", "", <<>>)
  /\ UNCHANGED << admins_file, commands_file, ret, servers_file, session, connection_lock, probe >>

\* authentication.py 41: add_admin_to_file(new_admin)
CallAddAdminToFile(p, new_admin) ==
  /\ pc[p] = "idle"
  /\ Goto(p, "addadm_check", <<>>)
  /\ loc' = [loc EXCEPT ![p] = [NoLoc EXCEPT !.new_admin = new_admin, !.direct = TRUE]]
  /\ UNCHANGED << admins_file, commands_file, ret, servers_file, session, connection_lock, probe >>

\* authentication.py 78: remove_admin(admin_id)
CallRemoveAdmin(p, admin_id) ==
  /\ pc[p] = "idle"
  /\ Goto(p, "rmadm_read", <<>>)
  /\ loc' = [loc EXCEPT ![p] = [NoLoc EXCEPT !.new_admin = admin_id, !.direct = TRUE]]
  /\ UNCHANGED << admins_file, commands_file, ret, servers_file, session, connection_lock, probe >>

NextAdmins ==
  \/ \E p \in Procs, user_id \in AdminIds : CallIsAdminUser(p, user_id) /\ Call
  \/ \E p \in Procs, new_admin \in AdminIds : CallAddAdminToFile(p, new_admin) /\ Call
  \/ \E p \in Procs : AddAdminCheck(p) /\ UNCHANGED << updates, faults >>
  \/ \E p \in Procs : AddAdminExists(p) /\ UNCHANGED << updates, faults >>
  \/ \E p \in Procs : AddAdminOpen(p) /\ UNCHANGED << updates, faults >>
  \/ \E p \in Procs : AddAdminWrite(p) /\ Written
  \/ \E p \in Procs, admin_id \in AdminIds : CallRemoveAdmin(p, admin_id) /\ Call
  \/ \E p \in Procs : RemoveAdminRead(p) /\ UNCHANGED << updates, faults >>
  \/ \E p \in Procs : RemoveAdminOpen(p) /\ UNCHANGED << updates, faults >>
  \/ \E p \in Procs : RemoveAdminWrite(p) /\ Written

SpecAdmins == InitAdmins /\ [][NextAdmins]_vars

(***************************************************************************)
(* Plain text messages, /add_command and /remove_command by themselves:    *)
(* the two paths that call the Command Filter (bot.py handle_command,      *)
(* add_command) and the handler that rewrites commands.txt, from a bot     *)
(* that is connected or idle.                                              *)
(***************************************************************************)
\* line ends in commands.txt from which on no further /add_command starts
MaxCommands == 2

\* the bot after construction, nobody being served
InitIdle ==
  /\ admins_file = [exists |-> TRUE, content |-> <<>>]
  /\ commands_file = <<>>
  /\ servers_file = [exists |-> TRUE, content |-> HeaderLine]
  /\ ssh_client = "None"
  /\ session_open = FALSE
  /\ connection_lock = 0
  /\ is_connected = FALSE
  /\ connected_server_info = <<>>
  /\ clock = 0
  /\ probe = [p \in Procs |-> FALSE]
  /\ updates = 0
  /\ faults = 0
  /\ pc = [p \in Procs |-> "idle"]
  /\ io = [p \in Procs |-> <<>>]
  /\ loc = [p \in Procs |-> NoLoc]
  /\ out = NoOut

\* the bot is idle, or connected as connect_to_server leaves it
InitCommands ==
  /\ admins_file = [exists |-> TRUE, content |-> <<>>]
  /\ commands_file = <<>>
  /\ ret = NoRet
  /\ servers_file = [exists |-> TRUE, content |-> HeaderLine]
  /\ connection_lock = 0
  /\ \/ /\ ssh_client = "None"
        /\ session_open = FALSE
        /\ is_connected = FALSE
        /\ connected_server_info = <<>>
        /\ clock = 0
     \/ /\ ssh_client = "client"
        /\ session_open = TRUE
        /\ is_connected = TRUE
        /\ connected_server_info =
             << [ip |-> <<49, 48, 46, 48, 46, 48, 46, 57>> (* '10.0.0.9' *), username |-> <<97, 108>> (* 'al' *), connected_at |-> 1] >>
        /\ clock = 1
  /\ probe = [p \in Procs |-> FALSE]
  /\ updates = 0
  /\ faults = 0
  /\ pc = [p \in Procs |-> "idle"]
  /\ io = [p \in Procs |-> <<>>]
  /\ loc = [p \in Procs |-> NoLoc]
  /\ out = NoOut

NextCommands ==
  \/ \E p \in Procs, update \in {Message(t) : t \in (CmdTexts \cup MoreCmdTexts)} \cup {EditedMessage},
          chat \in ChatTypes :
       CommandHandler(p, update, chat) /\ UNCHANGED << updates, faults >>
  \/ \E p \in Procs : CommandCheck(p) /\ UNCHANGED << updates, faults >>
  \/ \E p \in Procs : CommandExec(p) /\ UNCHANGED << updates, faults >>
  \/ \E p \in Procs : CommandRead(p) /\ UNCHANGED << updates, faults >>
  \/ \E p \in Procs, update \in {Message(t) : t \in (AddCmdTexts \cup MoreAddCmdTexts)} \cup {EditedMessage} :
       /\ AddCommandHandler(p, update)
       /\ Len(SelectSeq(commands_file, LAMBDA c : c = 10)) < MaxCommands
       /\ Accept
  \/ \E p \in Procs : AddCommandWrite(p) /\ Written
  \/ \E p \in Procs, update \in {Message(t) : t \in RemoveCmdTexts} \cup {EditedMessage} :
       Accept /\ RemoveCommandHandler(p, update)
  \/ \E p \in Procs : RemoveCommandOpen(p) /\ UNCHANGED << updates, faults >>
  \/ \E p \in Procs : RemoveCommandWrite(p) /\ Written

SpecCommands == InitCommands /\ [][NextCommands]_vars

(***************************************************************************)
(* The functions of utils.py by themselves: sanitize_input and             *)
(* validate_command called directly on the texts and lists above.          *)
(***************************************************************************)
\* the arguments of the call: a text, a blocklist and an allow-list
InitFilter ==
  /\ InitIdle
  /\ ret \in { [NoRet EXCEPT !.text = text, !.blocked = blocked, !.allowed = allowed] :
                 text \in FilterTexts, blocked \in Blocklists, allowed \in AllowLists }

\* utils.py 78: sanitize_input(text)
CallSanitizeInput ==
  /\ ret.fn = "none"
  /\ ret' = [ret EXCEPT !.fn = "sanitize_input",
                        !.sanitized = sanitize_input(ret.text)]
  /\ out' = NoOut
  /\ UNCHANGED << admins_file, commands_file, servers_file, session,
                  connection_lock, probe, pc, io, loc >>

\* utils.py 35: validate_command(command, blocked_commands, allowed_prefixes)
CallValidateCommand ==
  /\ ret.fn = "none"
  /\ ret' = [ret EXCEPT !.fn = "validate_command",
                        !.verdict = validate_command(ret.text, ret.blocked,
                                                     ret.allowed)]
  /\ out' = NoOut
  /\ UNCHANGED << admins_file, commands_file, servers_file, session,
                  connection_lock, probe, pc, io, loc >>

NextFilter ==
  \/ CallSanitizeInput /\ UNCHANGED << updates, faults >>
  \/ CallValidateCommand /\ UNCHANGED << updates, faults >>

SpecFilter == InitFilter /\ [][NextFilter]_vars

(***************************************************************************)
(* /servers_list and /connect by themselves, on inventories that hold      *)
(* rows with fewer than five fields.                                       *)
(***************************************************************************)
\* rows of servers.txt without the added-by and date fields

\* servers.txt when the requests start
ListFiles ==
  { [exists |-> TRUE, content |-> HeaderLine],
    [exists |-> TRUE, content |-> csv_writerows(<<Header, RecB>>)],
    [exists |-> TRUE, content |-> csv_writerows(<<Header,
                      << <<49, 48, 46, 48, 46, 48, 46, 55>> (* '10.0.0.7' *), <<101, 118, 101>> (* 'eve' *), <<112, 119>> (* 'pw' *) >>,
                      RecB>>)],
    [exists |-> TRUE, content |-> csv_writerows(<<Header, RecB,
                      << <<49, 48, 46, 48, 46, 48, 46, 55>> (* '10.0.0.7' *), <<101, 118, 101>> (* 'eve' *), <<112, 119>> (* 'pw' *), <<49, 48, 48>> (* '100' *) >>>>)] }

InitList ==
  /\ admins_file \in {[exists |-> TRUE, content |-> c] : c \in AdminFiles}
  /\ commands_file = <<>>
  /\ ret = NoRet
  /\ servers_file \in ListFiles
  /\ ssh_client = "None"
  /\ session_open = FALSE
  /\ connection_lock = 0
  /\ is_connected = FALSE
  /\ connected_server_info = <<>>
  /\ clock = 0
  /\ probe = [p \in Procs |-> FALSE]
  /\ updates = 0
  /\ faults = 0
  /\ pc = [p \in Procs |-> "idle"]
  /\ io = [p \in Procs |-> <<>>]
  /\ loc = [p \in Procs |-> NoLoc]
  /\ out = NoOut

NextList ==
  \/ \E p \in Procs, update \in {Message(<<47, 115, 101, 114, 118, 101, 114, 115, 95, 108, 105, 115, 116>> (* '/servers_list' *)), EditedMessage, CallbackQuery} :
       ServersListHandler(p, update) /\ UNCHANGED << updates, faults >>
  \/ \E p \in Procs, update \in {Message(t) : t \in ConnTexts} \cup {EditedMessage} :
       ConnectHandler(p, update) /\ UNCHANGED << updates, faults >>
  \/ \E p \in Procs : ConnectHandlerRead(p) /\ UNCHANGED << updates, faults >>
  \/ \E p \in Procs : ConnectLock(p) /\ UNCHANGED << updates, faults >>
  \/ \E p \in Procs : ConnectIO(p) /\ UNCHANGED << updates, faults >>
  \/ \E p \in Procs : ConnectSetFlag(p) /\ UNCHANGED << updates, faults >>
  \/ \E p \in Procs : ConnectSetInfo(p) /\ UNCHANGED << updates, faults >>

SpecList == InitList /\ [][NextList]_vars

(***************************************************************************)
(* Notions of the specification the properties are stated with.            *)
(***************************************************************************)
\* the admin set: the entries of admins.txt
AdminSet ==
  IF ~admins_file.exists THEN {}
  ELSE LET parts == SplitOn(UniversalNewlines(admins_file.content), 44)
       IN  {Strip(parts[i]) : i \in 1..Len(parts)} \ {<<>>}

\* isAuthorized: the requester's id, or its handle if it has one, is in the
\* admin set
Authorized(p) ==
  \/ PyStrInt(User(p).id) \in AdminSet
  \/ /\ User(p).username # <<>>
     /\ User(p).username[1] \in AdminSet

\* remote connections the process holds open: the session's and the probes'
OpenConnections ==
  (IF session_open THEN 1 ELSE 0) + Cardinality({p \in Procs : probe[p]})

\* p is inside do_command, past its connected-check
InExecute(p) == pc[p] \in {"cmd_exec", "cmd_read"}

\* p is inside connect_to_server or disconnect_from_server, holding the lock
ChangingSession(p) ==
  pc[p] \in {"conn_io", "conn_set_flag", "conn_set_info", "disc_close",
             "disc_clear_client", "disc_clear_flag", "disc_clear_info",
             "disc_except"}

\* the positions of the four gated handlers past their gate
PastGate ==
  {"add_check_ip", "probe_connect", "probe_close", "add_record", "add_exists",
   "add_open", "add_write",
   "del_read", "del_open", "del_write",
   "conn_h_read", "conn_lock", "conn_io", "conn_set_flag", "conn_set_info",
   "disc_lock", "disc_close", "disc_clear_client", "disc_clear_flag",
   "disc_clear_info", "disc_except"}

GatedKinds == {"add_server", "del_server", "connect", "disconnect"}

(***************************************************************************)
(* Properties.                                                             *)
(***************************************************************************)
\* C1: in every reachable state the system holds at most one open remote
\* connection, whatever the interleaving of connect, disconnect, execute and
\* add-server (credential probe) requests.
\* Violated: is_valid_login opens its own connection while the session is open.
C1_AtMostOneOpenConnection == OpenConnections <= 1

\* C2: a command is executed on the remote session only if the requester
\* passed the Access Policy gate: no text of a requester that is not
\* authorized is ever handed to do_command.
\* Violated: command_handler and handle_command do not call is_admin_user.
C2_ExecuteOnlyIfAuthorized ==
  \A p \in Procs : pc[p] \in {"cmd_check", "cmd_exec", "cmd_read"} => Authorized(p)

\* C3: an add-server, delete-server, connect or disconnect request of a
\* requester that is not authorized (neither its id nor its handle is in the
\* admin set) never gets past the gate: it returns without calling a core
\* operation, without network I/O, and leaves the inventory and the
\* connection state unchanged.
\* Violated: a requester without a handle is looked up as str(None), so the
\* entry None in admins.txt lets it through; so is every requester whose
\* update is an edited message.
C3_UnauthorizedChangesNothing ==
  [][ \A p \in Procs : ~Authorized(p) =>
        /\ pc'[p] \notin PastGate
        /\ (out'.p = p /\ out'.kind \in GatedKinds) =>
             /\ out'.op = "none"
             /\ out'.io = <<>>
             /\ UNCHANGED << servers_file, session >>
    ]_vars

\* C4: connect called while the state is Connected returns the
\* already-connected failure, performs no transport I/O and leaves the
\* recorded session unchanged; the recorded session is never replaced: it is
\* recorded only when none is, and cleared only by a disconnect.
C4_ConnectWhileConnected ==
  [][ /\ \A p \in Procs :
           (pc[p] = "conn_lock" /\ is_connected /\ pc'[p] # pc[p]) =>
             /\ out' = [p |-> p, kind |-> "connect", op |-> "connect_to_server",
                        ok |-> FALSE, msg |-> "already_connected",
                        reply |-> "connect_failed", io |-> <<>>]
             /\ UNCHANGED session
      /\ connected_server_info' # connected_server_info =>
           \/ connected_server_info = <<>>
           \/ /\ connected_server_info' = <<>>
              /\ \E p \in Procs :
                   pc[p] \in {"disc_clear_info", "disc_except"} /\ pc'[p] = "idle"
    ]_vars

\* C4 happens: a connect has returned already-connected while a session is recorded
C4_Witness ==
  /\ out.op = "connect_to_server"
  /\ out.msg = "already_connected"
  /\ is_connected
  /\ connected_server_info # <<>>

\* C5: every command string handed to do_command is one for which
\* validate_command returned ok: a rejected command never reaches the transport.
C5_DispatchedIsValidated ==
  \A p \in Procs :
    pc[p] \in {"cmd_check", "cmd_exec", "cmd_read"} =>
      validate_command(loc[p].cmd, BLOCKED_COMMANDS, <<>>).ok

\* C5 happens: one command is at the transport while another has just been rejected
C5_Witness ==
  /\ \E p \in Procs : pc[p] = "cmd_read" /\ loc[p].cmd # <<>>
  /\ out.kind = "command"
  /\ out.reply = "rejected"

\* C6: execute called while Idle returns the not-connected error result
\* without any transport operation, and execute never lets an exception
\* escape, also when a disconnect comes between its connected-check and its
\* use of the transport handle.
C6_ExecuteNeverRaises ==
  [][ /\ \A p \in Procs :
           (pc[p] = "cmd_check" /\ ~is_connected /\ pc'[p] # pc[p]) =>
             /\ out' = [p |-> p, kind |-> "command", op |-> "do_command",
                        ok |-> FALSE, msg |-> "not_connected",
                        reply |-> "done", io |-> <<>>]
             /\ UNCHANGED session
      /\ out'.op = "do_command" => (out'.msg # "raised" /\ out'.reply = "done")
    ]_vars

\* C6 happens: do_command found the handle gone after its connected-check and
\* returned the error result
C6_Witness ==
  /\ out.op = "do_command"
  /\ out.msg = "execution_failed"
  /\ out.io = <<>>
  /\ ssh_client = "None"

\* C7: connect, disconnect and execute are mutually exclusive: never two
\* executes in flight, never an execute in flight while a connect or a
\* disconnect is changing the session.
\* Violated: do_command does not take _connection_lock.
C7_MutualExclusion ==
  \A p, q \in Procs :
    (p # q /\ InExecute(p)) => (~InExecute(q) /\ ~ChangingSession(q))

\* C8: disconnect called while Idle returns false and is a no-op: connection
\* state, session info and transport handle unchanged, no transport operation.
C8_DisconnectWhileIdle ==
  [][ \A p \in Procs :
        (pc[p] = "disc_lock" /\ ~is_connected /\ pc'[p] # pc[p]) =>
          /\ out' = [p |-> p, kind |-> "disconnect",
                     op |-> "disconnect_from_server", ok |-> FALSE,
                     msg |-> "not_connected", reply |-> "disconnect_failed",
                     io |-> <<>>]
          /\ UNCHANGED session
    ]_vars

\* C8 happens: a disconnect has returned false because nothing was connected
C8_Witness ==
  /\ out.op = "disconnect_from_server"
  /\ out.msg = "not_connected"
  /\ ~out.ok

\* C9: when a disconnect called while Connected returns, the state is Idle,
\* the session info is cleared and the transport handle is released, also
\* when close() raised.
\* Violated: the except clause does not reset _ssh_client.
C9_DisconnectReleasesHandle ==
  (out.op = "disconnect_from_server" /\ out.msg # "not_connected") =>
    /\ ~is_connected
    /\ connected_server_info = <<>>
    /\ ssh_client = "None"

\* C10: a connect that fails (authentication rejected, SSH error, any other
\* error) leaves the state Idle with no session info recorded and returns a
\* failure with a message instead of raising.
C10_FailedConnectLeavesIdle ==
  (out.op = "connect_to_server" /\ ~out.ok /\ out.msg # "already_connected") =>
    /\ ~is_connected
    /\ connected_server_info = <<>>
    /\ out.msg \in {"auth_failed", "ssh_error", "connection_failed"}
    /\ out.reply = "connect_failed"
    /\ out.io = <<"connect">>

\* C10 happens: a connect has failed on rejected credentials
C10_Witness ==
  /\ out.op = "connect_to_server"
  /\ out.msg = "auth_failed"
  /\ ~out.ok

\* C11: an execute that fails (timeout, transport drop) leaves the state
\* Connected with the same session info, makes no reconnect and no retry, and
\* afterwards connect keeps returning already-connected until a disconnect:
\* no step of do_command changes the session, a failed execute has called
\* exec_command at most once and connect never, only a disconnect turns
\* Connected into Idle, and connect on Connected returns already-connected.
C11_FailedExecuteKeepsSession ==
  [][ /\ \A p \in Procs :
           (pc[p] \in {"cmd_check", "cmd_exec", "cmd_read"} /\ pc'[p] # pc[p]) =>
             UNCHANGED << session, connection_lock >>
      /\ (out'.op = "do_command" /\ out'.msg = "execution_failed") =>
           out'.io \in {<<>>, <<"exec_command">>, <<"exec_command", "read">>}
      /\ (is_connected /\ ~is_connected') =>
           \E p \in Procs : pc[p] \in {"disc_clear_flag", "disc_except"} /\ pc'[p] # pc[p]
      /\ \A p \in Procs :
           (pc[p] = "conn_lock" /\ is_connected /\ pc'[p] # pc[p]) =>
             (~out'.ok /\ out'.msg = "already_connected")
    ]_vars

\* C11 happens: an execute has failed on a dropped transport and the session
\* is still recorded as connected
C11_Witness ==
  /\ out.op = "do_command"
  /\ out.msg = "execution_failed"
  /\ out.io # <<>>
  /\ ~session_open
  /\ is_connected
  /\ connected_server_info # <<>>

\* C12: the session is destroyed on a transport-level fatal error: when an
\* execute has failed and the session's transport is dead, the state is Idle
\* without an explicit disconnect.
\* Violated: do_command's except clause returns the error and leaves
\* _is_connected set.
C12_DeadTransportMeansIdle ==
  (out.op = "do_command" /\ out.msg = "execution_failed" /\ ~session_open) =>
    ~is_connected

\* C19: a record is appended only after the address passed is_valid_ip and
\* then is_valid_login returned True, in that order: the probe starts only
\* for a valid address, the steps of add_server are reached only with a valid
\* address, a successful probe and exactly the probe's connect and close
\* behind them, a malformed address gives no transport operation and no
\* append, a failed probe gives no append, and nothing else of /add_server
\* writes the store.
C19_AppendOnlyAfterValidation ==
  [][ /\ \A p \in Procs :
           /\ (pc[p] = "add_check_ip" /\ pc'[p] # pc[p]) =>
                IF is_valid_ip(loc[p].target[1])
                THEN pc'[p] = "probe_connect" /\ io'[p] = <<>>
                ELSE /\ out'.reply = "invalid_ip"
                     /\ out'.io = <<>>
                     /\ UNCHANGED << servers_file, probe >>
           /\ (pc[p] = "probe_connect" /\ pc'[p] # pc[p]) =>
                is_valid_ip(loc[p].target[1])
           /\ (pc[p] = "probe_close" /\ pc'[p] # pc[p]) =>
                IF loc[p].valid
                THEN pc'[p] = "add_record"
                ELSE out'.reply = "login_failed" /\ servers_file' = servers_file
           /\ ( /\ pc[p] \in {"add_record", "add_exists", "add_open", "add_write"}
                /\ pc'[p] # pc[p] ) =>
                /\ is_valid_ip(loc[p].target[1])
                /\ loc[p].valid
                /\ io[p] = <<"probe_connect", "probe_close">>
           /\ (pc[p] = "add_write" /\ pc'[p] # pc[p]) =>
                /\ SubSeq(loc[p].record, 1, 3) = loc[p].target
                /\ out'.io = <<"probe_connect", "probe_close">>
           /\ (out'.p = p /\ out'.kind = "add_server"
                 /\ out'.reply \in {"need_admin", "usage", "invalid_ip"}) =>
                (out'.io = <<>> /\ servers_file' = servers_file)
      /\ servers_file' # servers_file =>
           \E p \in Procs :
             /\ pc[p] \in {"add_open", "add_write", "del_open", "del_write"}
             /\ pc'[p] # pc[p]
    ]_vars

\* C19 happens: /add_server has appended a record after a probe
C19_Witness ==
  /\ out.kind = "add_server"
  /\ out.reply = "added"
  /\ out.io = <<"probe_connect", "probe_close">>
  /\ ServersIn(servers_file) # <<>>

\* C20: is_valid_login closes its probe connection before it returns, on
\* success and on every failure, so that no probe connection is open after
\* the call: a probe connection is open only between the probe's connect and
\* its close.
\* Violated: an exception of test_client.close() is swallowed (except
\* Exception: pass) and the connection it did not close is left open.
C20_ProbeAlwaysClosed ==
  \A p \in Procs : probe[p] => pc[p] = "probe_close"

\* the replies that report a request the handler could not carry out
RefusalReplies ==
  {"need_admin", "already_connected", "usage", "invalid_ip", "invalid_number",
   "no_such_server", "error"}

\* a step that reports to p and changes nothing
ReportedWithoutEffect(p) ==
  /\ out'.p = p
  /\ ~out'.ok
  /\ out'.op = "none"
  /\ out'.reply \in RefusalReplies
  /\ out'.io = <<>>
  /\ UNCHANGED << servers_file, session, connection_lock, probe >>

\* /add_server with fewer than three arguments
AddMissingArguments == [t \in AddTexts |-> Len(AddArgs[t]) < 3]

\* the position a /del_server or /connect message names, -1 when it is not a
\* decimal number
DelPosition ==
  [t \in DelTexts |-> IF IntParses(DelData[t]) THEN IntOf(DelData[t]) ELSE -1]

ConnPosition ==
  [t \in ConnTexts |-> IF IntParses(ConnData[t]) THEN IntOf(ConnData[t]) ELSE -1]

\* C24: no error leaves the system unable to serve later requests: the lock
\* is free whenever the operation that took it has returned (also after a
\* failed connect and after a disconnect whose close raised), a disconnect
\* on Connected ends in Idle, a connect on Idle gets to its transport, and a
\* connect whose transport succeeded returns success with the state Connected.
C24_ErrorsAreRecoverable ==
  /\ [](\A p \in Procs : pc[p] = "idle" => connection_lock # p)
  /\ [][ /\ out'.p # 0 => connection_lock' # out'.p
         /\ (out'.op = "disconnect_from_server" /\ out'.msg # "not_connected") =>
              ~is_connected'
         /\ \A p \in Procs :
              /\ (pc[p] = "conn_lock" /\ pc'[p] # pc[p] /\ ~is_connected) =>
                   pc'[p] = "conn_io"
              /\ (pc[p] = "conn_io" /\ pc'[p] = "conn_set_flag") => session_open'
              /\ (pc[p] = "conn_set_flag" /\ pc'[p] # pc[p]) => is_connected'
              /\ (pc[p] = "conn_set_info" /\ pc'[p] # pc[p]) =>
                   /\ out'.op = "connect_to_server"
                   /\ out'.ok
                   /\ is_connected'
                   /\ connected_server_info' # <<>>
                   /\ connection_lock' = 0
       ]_vars

\* C24 happens: a connect has succeeded after an earlier session was given up
\* by a disconnect whose close raised (the handle was never reset)
C24_Witness ==
  /\ out.op = "connect_to_server"
  /\ out.ok
  /\ is_connected
  /\ connected_server_info # <<>>
  /\ connected_server_info[1].connected_at = 2
  /\ connection_lock = 0

\* C27: a request with a malformed or out-of-range position (/connect,
\* /del_server) or with a malformed address or missing arguments
\* (/add_server) is answered by the handler itself and has no effect: the
\* inventory, the session state and the lock are unchanged and no transport
\* operation (connect attempt, credential probe) is made.
C27_MalformedRequestNoEffect ==
  [][ \A p \in Procs :
        /\ ( /\ pc[p] = "idle"
             /\ (out'.p = p /\ out'.kind = "add_server") \/ pc'[p] = "add_check_ip" ) =>
             \A text \in AddTexts :
               /\ (AddMissingArguments[text] /\ AddServerHandler(p, Message(text))) =>
                    ReportedWithoutEffect(p)
               /\ (pc'[p] = "add_check_ip" /\ AddServerHandler(p, Message(text))) =>
                    /\ loc'[p].target[1] = AddArgs[text][1]
                    /\ UNCHANGED << servers_file, session, connection_lock, probe >>
        /\ ( /\ pc[p] = "add_check_ip"
             /\ pc'[p] # pc[p]
             /\ ~is_valid_ip(loc[p].target[1]) ) =>
             (ReportedWithoutEffect(p) /\ out'.reply = "invalid_ip")
        /\ ( /\ pc[p] = "idle"
             /\ (out'.p = p /\ out'.kind = "del_server") \/ pc'[p] = "del_read" ) =>
             \A text \in DelTexts :
               ( /\ \/ DelPosition[text] < 1
                    \/ DelPosition[text] > Len(ServersIn(servers_file))
                 /\ DelServerHandler(p, Message(text)) ) => ReportedWithoutEffect(p)
        /\ ( /\ pc[p] = "idle"
             /\ (out'.p = p /\ out'.kind = "connect") \/ pc'[p] = "conn_h_read" ) =>
             \A text \in ConnTexts :
               /\ (ConnPosition[text] < 1 /\ ConnectHandler(p, Message(text))) =>
                    ReportedWithoutEffect(p)
               /\ (pc'[p] = "conn_h_read" /\ ConnectHandler(p, Message(text))) =>
                    /\ loc'[p].n = ConnPosition[text]
                    /\ UNCHANGED << servers_file, session, connection_lock, probe >>
        /\ ( /\ pc[p] = "conn_h_read"
             /\ pc'[p] # pc[p]
             /\ loc[p].n < 1 \/ loc[p].n > Len(ServersIn(servers_file)) ) =>
             ReportedWithoutEffect(p)
    ]_vars

\* C27 happens: /add_server with an address that is no IP address has been
\* answered after its first progress message
C27_Witness ==
  /\ out.kind = "add_server"
  /\ out.reply = "invalid_ip"
  /\ out.io = <<>>

\* C29: disconnect returns false only when the state was already Idle: a
\* false return means the connection state is unchanged.
\* Violated: when close() raises, the except clause resets the state and
\* returns False.
C29_FalseDisconnectChangesNothing ==
  [][ (out'.op = "disconnect_from_server" /\ ~out'.ok) =>
        /\ is_connected' = is_connected
        /\ connected_server_info' = connected_server_info
    ]_vars

\* C30: between operations (no connect or disconnect holds the lock) the
\* connected flag is true exactly when session info is recorded, and the
\* connected flag implies that a transport handle exists.
C30_FlagInfoHandleAgree ==
  connection_lock = 0 =>
    /\ is_connected <=> (connected_server_info # <<>>)
    /\ is_connected => ssh_client # "None"

\* C30 happens: a disconnect whose close raised has returned: Idle, no session
\* info, the handle still there
C30_Witness ==
  /\ out.op = "disconnect_from_server"
  /\ out.msg = "close_raised"
  /\ connection_lock = 0
  /\ ~is_connected
  /\ connected_server_info = <<>>
  /\ ssh_client = "client"

(***************************************************************************)
(* Properties of the Command Filter.                                       *)
(***************************************************************************)
\* the example command of the specification
FooRm == <<102, 111, 111, 59, 32, 114, 109, 32, 45, 114, 102, 32, 47, 116, 109, 112>> (* 'foo; rm -rf /tmp' *)

\* the blocklist entries that occur in the trimmed command, ignoring case
BlockHits(text, blocked) ==
  {i \in 1..Len(blocked) : Contains(Lower(Strip(text)), Lower(blocked[i]))}

\* the trimmed command matches a dangerous pattern
IsDangerous(text) ==
  \E k \in 1..Len(dangerous_patterns) : ReSearch(dangerous_patterns[k], Strip(text))

\* the first token starts with an allowed prefix, case-insensitively
PrefixAllowed(text, allowed) ==
  \E k \in 1..Len(allowed) :
    StartsWith(Lower(FirstToken(text)), Lower(allowed[k]))

\* C21: sanitize_input is idempotent, its result is at most 1000 long and
\* holds no C0 or C1 control character.
C21_SanitizeIdempotentBoundedClean ==
  ret.fn = "sanitize_input" =>
    /\ sanitize_input(ret.sanitized) = ret.sanitized
    /\ Len(ret.sanitized) <= 1000
    /\ \A i \in 1..Len(ret.sanitized) :
         ret.sanitized[i] \notin ((0..31) \cup (127..159))

\* C21 happens: a text longer than the limit has been sanitized
C21_Witness ==
  /\ ret.fn = "sanitize_input"
  /\ Len(ret.text) > 1000
  /\ Len(ret.sanitized) < Len(ret.text)
  /\ ret.sanitized # <<>>

\* C22 as stated: 'foo; rm -rf /tmp' is rejected with the generic
\* dangerous-pattern reason whatever the blocklist is.
\* Violated: with a blocklist that holds 'rm -rf /' the blocklist rule, which
\* comes first, rejects it and the reason names that entry.
C22_FooRmGenericReason ==
  (ret.fn = "validate_command" /\ ret.text = FooRm) =>
    (~ret.verdict.ok /\ ret.verdict.reason = "dangerous")

\* C22 amended: 'foo; rm -rf /tmp' is rejected whatever the blocklist is: with
\* the generic dangerous-pattern reason when no blocklist entry occurs in it,
\* and otherwise with the reason naming the first blocklist entry that occurs
\* in it, which for the configured blocklist is 'rm -rf /'.
C22_FooRmAlwaysRejected ==
  (ret.fn = "validate_command" /\ ret.text = FooRm) =>
    /\ ~ret.verdict.ok
    /\ IF BlockHits(FooRm, ret.blocked) = {}
       THEN ret.verdict.reason = "dangerous"
       ELSE /\ ret.verdict.reason = "blocked"
            /\ \E i \in BlockHits(FooRm, ret.blocked) :
                 /\ ret.verdict.pattern = ret.blocked[i]
                 /\ \A j \in BlockHits(FooRm, ret.blocked) : i <= j
    /\ ret.blocked = BLOCKED_COMMANDS =>
         ret.verdict.pattern = <<114, 109, 32, 45, 114, 102, 32, 47>>

\* C22 happens: the example has been validated against the configured blocklist
C22_Witness ==
  /\ ret.fn = "validate_command"
  /\ ret.text = FooRm
  /\ ret.blocked = BLOCKED_COMMANDS
  /\ ret.verdict.reason = "blocked"

\* C23: with an allow-list, a command that passed the first two rules is
\* accepted if and only if its first token, compared case-insensitively,
\* starts with an allowed prefix; also for prefixes in capitals and for a
\* command without tokens.
\* Violated: the prefixes are compared as written against the lowered token,
\* and a command without tokens is accepted.
C23_AllowListIffPrefix ==
  ( /\ ret.fn = "validate_command"
    /\ ret.allowed # <<>>
    /\ BlockHits(ret.text, ret.blocked) = {}
    /\ ~IsDangerous(ret.text) ) =>
    (ret.verdict.ok <=> PrefixAllowed(ret.text, ret.allowed))

\* C25: validate_command applies blocklist, dangerous pattern, allowed prefix
\* in this order and returns the first rejection: a blocklist hit gives the
\* reason naming the first entry in list order that occurs in the command
\* (also when a dangerous pattern matches), otherwise a dangerous pattern
\* gives the generic reason (also when the allow-list would reject), the
\* prefix reason is given only when neither applies, and the command is
\* accepted exactly when no rule rejects.
C25_RulesInOrder ==
  ret.fn = "validate_command" =>
    LET hits == BlockHits(ret.text, ret.blocked)
        dang == IsDangerous(ret.text)
        v == ret.verdict
    IN  /\ hits # {} =>
             /\ ~v.ok
             /\ v.reason = "blocked"
             /\ \E i \in hits : v.pattern = ret.blocked[i] /\ \A j \in hits : i <= j
        /\ (hits = {} /\ dang) => (~v.ok /\ v.reason = "dangerous")
        /\ v.reason = "prefix" => (~v.ok /\ hits = {} /\ ~dang /\ ret.allowed # <<>>)
        /\ (hits = {} /\ ~dang /\ ret.allowed = <<>>) => v.ok
        /\ ( /\ hits = {}
             /\ ~dang
             /\ ret.allowed # <<>>
             /\ FirstToken(ret.text) # <<>>
             /\ \A k \in 1..Len(ret.allowed) : ret.allowed[k] = Lower(ret.allowed[k]) ) =>
             (v.ok <=> PrefixAllowed(ret.text, ret.allowed))
        /\ v.ok <=> (v.reason = "")
        /\ v.ok => (hits = {} /\ ~dang)

\* C25 happens: a command that holds a blocklist entry and matches a
\* dangerous pattern has been rejected, and the allow-list would reject it too
C25_Witness ==
  /\ ret.fn = "validate_command"
  /\ BlockHits(ret.text, ret.blocked) # {}
  /\ IsDangerous(ret.text)
  /\ ret.allowed # <<>>
  /\ ~PrefixAllowed(ret.text, ret.allowed)
  /\ ret.verdict.reason = "blocked"

\* C26: on both paths that call the Command Filter (a plain text message,
\* /add_command) sanitize_input comes first: the text validate_command
\* checked is the text that is executed or stored.
\* Violated: add_command validates the text as received and sanitizes it
\* afterwards, so what it stores is not what the filter saw.
C26_FilterSeesWhatIsUsed ==
  [][ \A p \in Procs :
        /\ (pc[p] = "idle" /\ pc'[p] = "cmd_check") =>
             (loc'[p].checked = loc'[p].cmd /\ loc'[p].cmd = sanitize_input(loc'[p].cmd))
        /\ (pc[p] = "addcmd_write" /\ pc'[p] # pc[p] /\ out'.ok) =>
             /\ loc[p].checked = loc[p].cmd
             /\ commands_file' = commands_file \o loc[p].checked \o <<10>>
    ]_vars

\* C28: with the allowed-prefix list configured, no command whose first token
\* starts with none of the allowed prefixes is handed to the session.
\* Violated: handle_command calls validate_command without the list.
C28_AllowedPrefixEnforced ==
  \A p \in Procs :
    pc[p] \in {"cmd_exec", "cmd_read"} =>
      PrefixAllowed(loc[p].cmd, ALLOWED_COMMAND_PREFIXES)

\* C31: every record get_servers_data returns can be used by /servers_list
\* and /connect without an error, also rows with only 3 or 4 fields: the
\* list is formatted, and a record at a valid position is read and handed to
\* connect_to_server.
\* Violated: format_server_list and the connect handler read server[3] and
\* server[4] of rows that get_servers_data lets through with 3 fields.
C31_ListedRecordsAreUsable ==
  [][ \A p \in Procs :
        /\ (out'.p = p /\ out'.kind = "servers_list" /\ out'.reply # "need_admin") =>
             out'.ok
        /\ ( /\ pc[p] = "conn_h_read"
             /\ pc'[p] # pc[p]
             /\ loc[p].n >= 1
             /\ loc[p].n <= Len(ServersIn(servers_file)) ) => pc'[p] = "conn_lock"
    ]_vars

\* the lines of servers.txt, each as its fields: the text between two line
\* ends ('\r' or '\n'), cut at its commas
StoreLines ==
  IF ~servers_file.exists THEN <<>>
  ELSE LET text == [i \in 1..Len(servers_file.content) |->
                      IF servers_file.content[i] = 13 THEN 10
                      ELSE servers_file.content[i]]
           lines == SplitOn(text, 10)
       IN  [i \in 1..Len(lines) |-> SplitOn(lines[i], 44)]

\* the lines of servers.txt after the first that have at least 3 fields, in
\* the order of the file
QualifiedLines ==
  IF StoreLines = <<>> THEN <<>>
  ELSE SelectSeq(Tail(StoreLines), LAMBDA line : Len(line) >= 3)

\* C13: del_server(position) with position outside [1, count], or on an
\* absent or empty store, returns false and leaves the store unchanged: the
\* file and the list read from it are the same before and after.
C13_DeleteOutOfRange ==
  [][ \A p \in Procs :
        ( /\ pc[p] = "del_read"
          /\ pc'[p] # pc[p]
          /\ \/ ~servers_file.exists
             \/ loc[p].n < 1
             \/ loc[p].n > Len(ServersIn(servers_file)) ) =>
          /\ out'.p = p
          /\ out'.op = "del_server"
          /\ ~out'.ok
          /\ servers_file' = servers_file
          /\ ServersIn(servers_file') = ServersIn(servers_file)
    ]_vars

\* C13 happens: del_server has returned false on a store that holds records
C13_Witness ==
  /\ out.op = "del_server"
  /\ ~out.ok
  /\ out.msg = ""
  /\ ServersIn(servers_file) # <<>>

\* C14: an add_server that returns true, followed by get_servers_data, yields
\* the previous list with one record appended whose five fields equal the
\* inputs exactly.
\* Violated: a carriage return in a field is read back as a line feed; and an
\* add that overlaps another write leaves its header among the records or its
\* record behind an unfinished line.
C14_AddAppendsExactRecord ==
  [][ \A p \in Procs :
        (pc[p] = "add_write" /\ pc'[p] = "idle" /\ out'.ok) =>
          ServersIn(servers_file') = Append(ServersIn(servers_file), loc[p].record)
    ]_vars

\* C15: del_server(position) with 1 <= position <= count returns true, and
\* the list read afterwards is the list of the store before the call with
\* exactly the position-th record removed, the others unchanged and in
\* order; a storage error, which the specification lets the operation
\* report, makes the call return false: a read that fails, with the store
\* untouched, or an open or a write that fails.
\* Violated: a read that fails behind the position-th record is not
\* reported: del_server goes on with the records read up to the failure,
\* returns true and has rewritten the store without the records behind it;
\* and a call that overlaps another write returns true on a store whose list
\* is not the list it read less the record.
C15_DeleteInRange ==
  [][ \A p \in Procs :
        /\ ( /\ pc[p] = "del_read"
             /\ pc'[p] # pc[p]
             /\ servers_file.exists
             /\ loc[p].n >= 1
             /\ loc[p].n <= Len(ServersIn(servers_file)) ) =>
             \/ /\ pc'[p] = "del_open"
                /\ loc'[p].before = ServersIn(servers_file)
                /\ loc'[p].servers = RemoveAt(ServersIn(servers_file), loc[p].n)
             \/ /\ pc'[p] = "idle"
                /\ out'.op = "del_server"
                /\ ~out'.ok
                /\ out'.msg = "raised"
                /\ servers_file' = servers_file
        /\ (pc[p] = "del_open" /\ pc'[p] = "idle") =>
             /\ out'.op = "del_server"
             /\ ~out'.ok
             /\ out'.msg = "raised"
        /\ (pc[p] = "del_write" /\ pc'[p] = "idle") =>
             /\ out'.op = "del_server"
             /\ IF out'.ok
                THEN ServersIn(servers_file') = RemoveAt(loc[p].before, loc[p].n)
                ELSE out'.msg = "raised"
    ]_vars

\* C16: get_servers_data returns, in store order, exactly the lines after the
\* first that have at least 3 fields; the first line is never returned and
\* shorter lines are dropped without failing the read; a read that fails is
\* a storage error, for which the specification gives the empty list. The
\* lines are those of the text, for the stores that hold no quoted field.
\* Violated: a read that fails returns the records read before the failure,
\* and nothing tells the caller that records are missing.
C16_ListIsQualifiedLinesInOrder ==
  [][ out'.op = "get_servers_data" =>
        /\ out'.ok
        /\ IF out'.msg = "raised"
           THEN ret'.servers = <<>>
           ELSE (\A i \in 1..Len(servers_file.content) : servers_file.content[i] # 34) =>
                  ret'.servers = QualifiedLines
    ]_vars

\* C17: a get_servers_data that runs while a del_server is rewriting the
\* store, and whose read does not fail, returns the list as it was before
\* the delete or as it is after it.
\* Violated: between open(..., 'w') and the close of the file the store is
\* empty.
C17_ReaderSeesPreOrPost ==
  [][ (out'.op = "get_servers_data" /\ out'.msg # "raised") =>
        \A q \in Procs :
          pc[q] \in {"del_open", "del_write"} =>
            ret'.servers \in {loc[q].before, loc[q].servers}
    ]_vars

\* C18: inventory writes are applied one at a time: a del_server rewrites the
\* store it read, with nothing written to the file between its open and its
\* close, and an add_server appends to the file it looked at, so that no
\* record added in between is lost.
\* Violated: neither operation takes a lock; a record added between
\* del_server's read and its rewrite is gone after the rewrite, and what is
\* written between its open and its close is overwritten from the start.
C18_WritesAreSerial ==
  [][ \A p \in Procs :
        /\ (pc[p] = "del_open" /\ pc'[p] = "del_write") =>
             ServersIn(servers_file) = loc[p].before
        /\ (pc[p] = "del_write" /\ pc'[p] = "idle") =>
             servers_file.content = <<>>
        /\ (pc[p] = "add_open" /\ pc'[p] = "add_write") =>
             servers_file.exists = loc[p].file_exists
        /\ (pc[p] = "add_write" /\ pc'[p] = "idle") =>
             /\ ~loc[p].file_exists => servers_file.content = <<>>
             /\ \A q \in Procs \ {p} : pc[q] # "del_write"
    ]_vars

====
